---- MODULE Spec2Model ----
(***************************************************************************)
(* Model of the image acquisition, batching, caching and metadata pipeline *)
(* of MMM-SynPhotoSlideshow.                                               *)
(*                                                                         *)
(*   SpecShow   SlideshowController + ImageListManager + TimerManager      *)
(*   SpecGeo    ExifExtractor geocoding queue and rate limit               *)
(*   SpecDb     ExifExtractor metadata database load / save                *)
(*   SpecCache  ImageCache set / evictOldFiles / clear                     *)
(*                                                                         *)
(* Every asynchronous function is cut at its awaits: one action per        *)
(* synchronous segment, the position kept in a pc field.                   *)
(***************************************************************************)
EXTENDS Integers, Sequences, FiniteSets, TLC

VARIABLES
  \* ---- ImageListManager
  imageList,            \* current batch (sequence of photo paths)
  index,                \* cursor into imageList
  nextBatchList,        \* preloaded next batch
  currentBatchOffset,   \* pagination offset of the current batch
  trackerFile,          \* filesShownTracker.txt, as the set of its lines
  alreadyShownSet,      \* in-memory copy of the tracker
  \* ---- SlideshowController
  isRetryingImageLoad,
  isLoadingNextBatch,
  retryTimers,          \* number of pending 10-minute retry timeouts
  started,              \* initialize() has scheduled the first gather
  serve,                \* getNextImage calls in progress, per call slot
  preload,              \* the preloadNextBatch call in progress
  showAllImagesBeforeRestart,   \* config.showAllImagesBeforeRestart
  \* ---- TimerManager
  slideshowTimer,       \* TRUE iff the display timeout is pending
  \* ---- provider and observers
  failures,             \* provider fetches that failed so far
  playing,              \* no PAUSE since the last PLAY
  servedSet,            \* photos handed to the display so far
  dupBeforeAll,         \* a photo was served again before all were served
  ret,                  \* how the serve call that just returned ended
  obs,                  \* what the handler that just ran did
  \* ---- ExifExtractor: geocoding
  now,                          \* Date.now(), in ms
  lastGeocodingRequestTime,
  geocodingQueue,               \* queued tasks, oldest first
  isProcessingGeocodingQueue,
  drain,                        \* processGeocodingQueue loops past the guard
  enqueued,                     \* number of tasks enqueued so far
  reqTimes,                     \* start time of every request sent, in order
  execOrder,                    \* tasks in the order their execution began
  \* ---- ExifExtractor: metadata database files
  files,                \* photo_metadata.json and its .backup / .tmp siblings
  proc,                 \* loadMetadataDatabase / saveMetadataDatabase calls
  calls,                \* number of calls made so far
  startOk,              \* the main file was absent or valid JSON at start
  dbRet,                \* the call that just returned, and what it saw
  \* ---- ImageCache
  cacheReady,           \* initialize() has completed
  disk,                 \* size of every file in the cache directory, 0: none
  byAge,                \* the files of the directory, oldest mtime first
  currentCacheSize,
  sets,                 \* number of set() calls made so far
  evict,                \* the evictOldFiles() calls in progress
  clearing,             \* the clear() call in progress
  clears,               \* number of clear() calls made so far
  direct,               \* evictOldFiles() was called other than by set()
  outOfOrder,           \* a file was deleted while an older one remained
  hadMetadata,          \* photo_metadata.json was inside the cache directory
  cacheRet,             \* the eviction or clear that just returned
  \* ---- ImageCache: background preload
  preloadQueue,         \* images the sweep has still to download
  isPreloading,
  sweep,                \* processPreloadQueue loops past the guard
  cacheKeys,            \* images the key table holds
  preloadCalls,         \* number of preloadImages calls made so far
  abandoned,            \* downloads that timed out and have not called back
  \* ---- ExifExtractor: records of the metadata database
  metaFile,             \* photo_metadata.json: the state of every record
  metaCall,             \* savePhotoMetadata / checkAndLogGeocodingUrl calls
  geoTask,              \* the geocoding task the drain loop is running
  metaCalls,            \* number of calls made so far
  failedKeys,           \* records whose geocoding request has failed
  metaRet,              \* what the call or request that just ended did
  \* ---- Functions of values: the call that was just made
  fn,                   \* the function called
  arg,                  \* its arguments
  out,                  \* what it returned
  \* ---- BackgroundDownloader: the periodic check for new images
  bgClock,              \* Date.now(), in ms since the process started
  initialTimer,         \* when the 5 s setTimeout of start() is due, or -1
  refreshTimer,         \* when the pending refresh setTimeout is due, or -1
  isDownloading,
  sweeps,               \* the checkAndDownloadNewImages calls past the guard
  bg,                   \* the configuration, and what has happened so far
  \* ---- ExifExtractor: the instances of one process
  extractors,           \* the geocoding fields of every instance
  requests,             \* when each request of the process left, in order
  geocoded,             \* number of geocoding tasks enqueued so far
  \* ---- TimerManager: its two handles and the timeouts of the event loop
  tm

showVars == <<imageList, index, nextBatchList, currentBatchOffset, trackerFile,
              alreadyShownSet, isRetryingImageLoad, isLoadingNextBatch,
              retryTimers, started, serve, preload, slideshowTimer, failures,
              playing, servedSet, dupBeforeAll, ret,
              showAllImagesBeforeRestart, obs>>

geoVars == <<now, lastGeocodingRequestTime, geocodingQueue,
             isProcessingGeocodingQueue, drain, enqueued, reqTimes, execOrder>>

dbVars == <<files, proc, calls, startOk, dbRet>>

cacheVars ==
  <<cacheReady, disk, byAge, currentCacheSize, sets, evict,
    clearing, clears, direct, outOfOrder, hadMetadata, cacheRet>>

sweepVars == <<preloadQueue, isPreloading, sweep, cacheKeys, preloadCalls,
               abandoned>>

metaVars == <<metaFile, metaCall, geoTask, metaCalls, failedKeys, metaRet>>

fnVars == <<fn, arg, out>>

bgVars == <<bgClock, initialTimer, refreshTimer, isDownloading, sweeps, bg>>

instVars == <<extractors, requests, geocoded>>

extraVars == <<fnVars, bgVars, instVars, tm>>

vars == <<showVars, geoVars, dbVars, cacheVars, sweepVars, metaVars, extraVars>>

-----------------------------------------------------------------------------
(* Bounds and configuration                                                *)

NumPhotos == 3          \* size of the provider's collection
MaxServeCalls == 2      \* getNextImage calls that may overlap
MaxFailures == 1        \* provider fetches that may fail
MaxRetryFailures == 2   \* the same, where two failures are needed
MaxRetryTimers == 2     \* cap on pending retry timeouts

synologyMaxPhotos == 2  \* config: batch size (page size)
LowWaterMark == 2       \* remaining images that trigger a preload

Photos == 1..NumPhotos
Slots == 1..MaxServeCalls

\* The provider lists newest first: the photo named NumPhotos comes first.
Collection == [i \in 1..NumPhotos |-> NumPhotos + 1 - i]

Min(a, b) == IF a < b THEN a ELSE b

Range(s) == {s[i] : i \in 1..Len(s)}

-----------------------------------------------------------------------------
(* Provider: SynologyPhotosClient.fetchPhotosByPersonalSpaceAlbums         *)

\* One page of the collection: offset .. offset + batch size.
Page(offset) ==
  IF offset >= NumPhotos THEN <<>>
  ELSE SubSeq(Collection, offset + 1, Min(offset + synologyMaxPhotos, NumPhotos))

\* SynologyManager.fetchPhotos: the page, or [] when authentication or the
\* request fails (every error is caught and turned into an empty list).
\* budget caps the number of failed fetches in a behaviour.
FetchResults(offset, budget) ==
  {Page(offset)} \cup (IF failures < budget THEN {<<>>} ELSE {})

-----------------------------------------------------------------------------
(* The slideshow state as one record, so that the synchronous segments of  *)
(* a handler compose as functions from state to state.                     *)

Cur ==
  [il |-> imageList, ix |-> index, nb |-> nextBatchList,
   off |-> currentBatchOffset, tf |-> trackerFile, as |-> alreadyShownSet,
   retrying |-> isRetryingImageLoad, loading |-> isLoadingNextBatch,
   rt |-> retryTimers, sv |-> serve, pl |-> preload, timer |-> slideshowTimer,
   served |-> servedSet, dup |-> dupBeforeAll, ret |-> ret, obs |-> obs]

\* Call slots are interchangeable (a slot is not part of the program), so
\* the calls in progress are kept in one fixed order, idle slots last.
Canon(sv) ==
  LET pcs == <<"initGather", "gatherA", "fbNew", "fbNext", "fbGather", "idle">>
      Rank(c) == 1000 * (CHOOSE i \in 1..Len(pcs) : pcs[i] = c.pc)
                   + 100 * c.currentOffset + 10 * c.goff + Cardinality(c.allShownSet)
  IN SortSeq(sv, LAMBDA a, b : Rank(a) < Rank(b))

Install(S) ==
  /\ imageList' = S.il
  /\ index' = S.ix
  /\ nextBatchList' = S.nb
  /\ currentBatchOffset' = S.off
  /\ trackerFile' = S.tf
  /\ alreadyShownSet' = S.as
  /\ isRetryingImageLoad' = S.retrying
  /\ isLoadingNextBatch' = S.loading
  /\ retryTimers' = S.rt
  /\ serve' = Canon(S.sv)
  /\ preload' = S.pl
  /\ slideshowTimer' = S.timer
  /\ servedSet' = S.served
  /\ dupBeforeAll' = S.dup
  /\ ret' = S.ret
  /\ obs' = S.obs

\* fetches: the provider fetches this call has waited for so far; reset: it
\* has reset the tracker at line 262.
IdleCall == [pc |-> "idle", allShownSet |-> {}, currentOffset |-> 0, goff |-> 0,
             fetches |-> 0, reset |-> FALSE]

\* Nothing observed: no prepareImageList(.., false) ran in this step.
NoPrep == [called |-> FALSE, source |-> <<>>, allShown |-> FALSE,
           list |-> <<>>, cursor |-> 0, tracker |-> {}, memory |-> {}]

\* What one step of a handler did: prep, the prepareImageList(.., false) it
\* made; awaited, the fetches the returning serve call waited for; checked,
\* remaining, wasLoading, the low-water test and what it saw; started, a
\* preloadNextBatch got past its guard; switched, stash, the switch to the
\* stashed batch; image, the photo handed to the display (0: none); from,
\* the offset of the batch whose rollover the returning call loaded (-1:
\* none); reset, that call reset the tracker on the way; quiet, no PLAY,
\* NEXT or PREVIOUS request has arrived since the last PAUSE (kept from
\* step to step).
NoObs == [prep |-> NoPrep, awaited |-> 0, checked |-> FALSE, remaining |-> 0,
          wasLoading |-> FALSE, started |-> FALSE, switched |-> FALSE,
          stash |-> <<>>, image |-> 0, from |-> -1, reset |-> FALSE,
          quiet |-> FALSE]
IdlePreload == [pc |-> "idle", allShownSet |-> {}, currentOffset |-> 0]

\* The serve call in slot s ends; how is what the observer ret records.
Return(S, s, how) ==
  [S EXCEPT !.sv[s] = IdleCall, !.ret = how,
            !.obs.awaited = S.sv[s].fetches,
            !.obs.from = IF S.sv[s].pc = "fbGather"
                         THEN S.sv[s].currentOffset ELSE -1,
            !.obs.reset = S.sv[s].reset]

-----------------------------------------------------------------------------
(* ImageListManager                                                        *)

\* sortByFilename, ascending: paths are compared as names.
sortImageList(list) == SortSeq(list, LAMBDA a, b : a < b)

FilterShown(images, shown) == SelectSeq(images, LAMBDA p : p \notin shown)

resetShownImagesTracker(S) == [S EXCEPT !.tf = {}, !.as = {}]

addImageToShown(S, imgPath) ==
  [S EXCEPT !.as = @ \cup {imgPath}, !.tf = @ \cup {imgPath}]

\* A faulty variant: the tracker is not reset when the filter leaves nothing.
prepareImageList_NoReset(S, images, isPreload) ==
  LET S1 == IF showAllImagesBeforeRestart THEN [S EXCEPT !.as = S.tf] ELSE S
      filtered == IF showAllImagesBeforeRestart
                  THEN FilterShown(images, S1.as)
                  ELSE images
      final == sortImageList(filtered)
  IN IF isPreload
     THEN [S1 EXCEPT !.nb = final]
     ELSE [S1 EXCEPT !.il = final, !.ix = 0]

prepareImageList(S, images, isPreload) ==
  LET S1 == IF showAllImagesBeforeRestart THEN [S EXCEPT !.as = S.tf] ELSE S
      filtered == IF showAllImagesBeforeRestart
                  THEN FilterShown(images, S1.as)
                  ELSE images
      reset == /\ showAllImagesBeforeRestart
               /\ filtered = <<>>
               /\ images # <<>>
               /\ ~isPreload
      S2 == IF reset THEN resetShownImagesTracker(S1) ELSE S1
      final == sortImageList(IF reset THEN images ELSE filtered)
  IN IF isPreload
     THEN [S2 EXCEPT !.nb = final]
     ELSE [S2 EXCEPT !.il = final, !.ix = 0]

areAllImagesShown(S) == S.ix >= Len(S.il)

hasNextBatchPreloaded(S) == S.nb # <<>>

\* A faulty variant: the cursor is not reset on the switch.
switchToNextBatch_KeepCursor(S) ==
  IF S.nb # <<>> THEN [S EXCEPT !.il = S.nb, !.nb = <<>>] ELSE S

switchToNextBatch(S) ==
  IF S.nb # <<>> THEN [S EXCEPT !.il = S.nb, !.nb = <<>>, !.ix = 0] ELSE S

isEmpty(S) == S.il = <<>>

\* A faulty variant: the end of the batch is not tested.
ImageListManager_getNextImage_NoBound(S) ==
  [S EXCEPT !.ix = @ + 1,
            !.obs.image = IF S.ix < Len(S.il) THEN S.il[S.ix + 1] ELSE 0]

\* ImageListManager.getNextImage: null (0) for an empty batch and at the
\* end of the batch, else the image at the cursor, and the cursor moves on.
ImageListManager_getNextImage(S) ==
  IF S.il = <<>> \/ S.ix >= Len(S.il)
  THEN [S EXCEPT !.obs.image = 0]
  ELSE [S EXCEPT !.ix = @ + 1, !.obs.image = S.il[S.ix + 1]]

\* ImageListManager.getPreviousImage: the cursor goes back by two, not
\* below zero, and the list's own getNextImage then pops an image.
getPreviousImage(S) ==
  LET back == IF S.ix - 2 < 0 THEN 0 ELSE S.ix - 2
  IN ImageListManager_getNextImage([S EXCEPT !.ix = back])

-----------------------------------------------------------------------------
(* TimerManager                                                            *)

startSlideshowTimer(S) == [S EXCEPT !.timer = TRUE]

stopAllTimers(S) == [S EXCEPT !.timer = FALSE]

-----------------------------------------------------------------------------
(* SlideshowController                                                     *)

\* gatherImageList after its fetch returned photos: prepare, set the offset.
\* obs.prep keeps what prepareImageList was given and what it left behind.
gatherImageList(S, photos, offset) ==
  LET R == prepareImageList(S, photos, FALSE)
  IN [R EXCEPT !.off = offset,
               !.obs.prep = [called |-> TRUE, source |-> photos,
                             allShown |-> Range(photos) \subseteq S.tf,
                             list |-> R.il, cursor |-> R.ix,
                             tracker |-> R.tf, memory |-> R.as]]

\* preloadNextBatch up to its first await.
preloadNextBatchStart(S) ==
  IF S.loading THEN S
  ELSE [S EXCEPT !.loading = TRUE,
                 !.pl = [pc |-> "plNew", allShownSet |-> S.tf,
                         currentOffset |-> S.off],
                 !.obs.started = TRUE]

\* A faulty variant: the in-flight flag is left set.
preloadNextBatchEnd_KeepFlag(S) == [S EXCEPT !.pl = IdlePreload]

\* preloadNextBatch, finally: the in-flight flag is cleared.
preloadNextBatchEnd(S) == [S EXCEPT !.loading = FALSE, !.pl = IdlePreload]

\* getNextImage, lines 273-337: pop the image, start the timer, track it.
ServeImage(S, s) ==
  IF S.il = <<>> \/ S.ix >= Len(S.il)
  THEN Return(S, s, "noImage")
  ELSE LET image == S.il[S.ix + 1]
           S1 == [S EXCEPT !.ix = @ + 1]
           S2 == IF S1.ix = 0 /\ showAllImagesBeforeRestart
                 THEN resetShownImagesTracker(S1) ELSE S1
           S3 == startSlideshowTimer(S2)
           S4 == IF showAllImagesBeforeRestart
                 THEN addImageToShown(S3, image) ELSE S3
           S5 == [S4 EXCEPT
                    !.dup = @ \/ (image \in S.served /\ S.served # Photos),
                    !.served = @ \cup {image},
                    !.obs.image = image]
       IN Return(S5, s, "served")

\* getNextImage, lines 198-271, up to the next await or the end.
ServeFromList(S, s) ==
  LET S1 == [S EXCEPT !.retrying = FALSE]
      remainingImages == Len(S1.il) - S1.ix
      S2 == [(IF remainingImages <= LowWaterMark /\ ~S1.loading
              THEN preloadNextBatchStart(S1) ELSE S1)
               EXCEPT !.obs.checked = TRUE,
                      !.obs.remaining = remainingImages,
                      !.obs.wasLoading = S1.loading]
  IN IF areAllImagesShown(S2)
     THEN IF hasNextBatchPreloaded(S2)
          THEN ServeImage([switchToNextBatch(S2) EXCEPT !.obs.switched = TRUE,
                                                        !.obs.stash = S2.nb], s)
          ELSE [S2 EXCEPT !.sv[s] = [pc |-> "fbNew", allShownSet |-> S2.tf,
                                     currentOffset |-> S2.off, goff |-> 0,
                                     fetches |-> S2.sv[s].fetches,
                                     reset |-> FALSE]]
     ELSE ServeImage(S2, s)

\* getNextImage from its first line.
getNextImage(S, s) ==
  IF isEmpty(S)
  THEN [S EXCEPT !.sv[s] = [IdleCall EXCEPT !.pc = "gatherA"]]
  ELSE ServeFromList(S, s)

\* getNextImage, lines 180-195: the list is still empty after the fetch.
ScheduleRetry(S, s) ==
  IF ~S.retrying
  THEN Return([S EXCEPT !.retrying = TRUE, !.rt = @ + 1], s, "emptyRetry")
  ELSE Return(S, s, "emptyRetry")

notShow == <<geoVars, dbVars, cacheVars, sweepVars, metaVars, extraVars>>

-----------------------------------------------------------------------------
(* Actions of the slideshow                                                *)

Start == [Cur EXCEPT !.ret = "none", !.obs = [NoObs EXCEPT !.quiet = obs.quiet]]

\* The state when a request arrives: PAUSE starts the quiet time, the
\* others end it.
Request(request) == [Start EXCEPT !.obs.quiet = (request = "pause")]

\* The lowest free call slot (slots are interchangeable).
FreeSlot(s) ==
  /\ serve[s].pc = "idle"
  /\ \A t \in Slots : t < s => serve[t].pc # "idle"

\* The state when the fetch that call s was waiting for has returned.
Fetched(s) == [Start EXCEPT !.sv[s].fetches = @ + 1]

Failed(offset, photos) == IF photos # Page(offset) THEN 1 ELSE 0

\* initialize(): the 200 ms timeout fires and the first gather starts.
Initialize ==
  /\ ~started
  /\ started' = TRUE
  /\ showAllImagesBeforeRestart' \in BOOLEAN
  /\ Install([Start EXCEPT !.sv[1] = [IdleCall EXCEPT !.pc = "initGather"]])
  /\ UNCHANGED <<failures, playing>>
  /\ UNCHANGED notShow

\* initialize(): the first gather's fetch returns, then getNextImage runs.
InitGatherDone(s, budget) ==
  /\ serve[s].pc = "initGather"
  /\ \E photos \in FetchResults(0, budget) :
       /\ failures' = failures + Failed(0, photos)
       /\ Install(getNextImage(
            gatherImageList([Start EXCEPT !.sv[s] = IdleCall], photos, 0), s))
  /\ UNCHANGED <<showAllImagesBeforeRestart, started, playing>>
  /\ UNCHANGED notShow

\* The display timeout fires: getNextImage.
TimerFire(s) ==
  /\ started
  /\ slideshowTimer
  /\ FreeSlot(s)
  /\ Install(getNextImage([Start EXCEPT !.timer = FALSE], s))
  /\ UNCHANGED <<showAllImagesBeforeRestart, started, failures, playing>>
  /\ UNCHANGED notShow

\* BACKGROUNDSLIDESHOW_NEXT: getNextImage.
NextRequest(s) ==
  /\ started
  /\ FreeSlot(s)
  /\ Install(getNextImage(Request("next"), s))
  /\ UNCHANGED <<showAllImagesBeforeRestart, started, failures, playing>>
  /\ UNCHANGED notShow

\* BACKGROUNDSLIDESHOW_PREVIOUS: SlideshowController.getPreviousImage.
PrevRequest(s) ==
  /\ started
  /\ FreeSlot(s)
  /\ Install(getNextImage(
       [getPreviousImage(Request("previous")) EXCEPT !.obs.image = 0], s))
  /\ UNCHANGED <<showAllImagesBeforeRestart, started, failures, playing>>
  /\ UNCHANGED notShow

\* The 10-minute retry timeout fires.
RetryFire(s) ==
  /\ retryTimers > 0
  /\ FreeSlot(s)
  /\ Install(getNextImage([Start EXCEPT !.rt = @ - 1, !.retrying = FALSE], s))
  /\ UNCHANGED <<showAllImagesBeforeRestart, started, failures, playing>>
  /\ UNCHANGED notShow

\* getNextImage line 177: gatherImageList(config, false, 0, true) returns.
GatherADone(s, budget) ==
  /\ serve[s].pc = "gatherA"
  /\ \E photos \in FetchResults(0, budget) :
       /\ failures' = failures + Failed(0, photos)
       /\ LET S1 == gatherImageList(Fetched(s), photos, 0)
          IN Install(IF isEmpty(S1) THEN ScheduleRetry(S1, s)
                     ELSE ServeFromList(S1, s))
  /\ retryTimers' <= MaxRetryTimers
  /\ UNCHANGED <<showAllImagesBeforeRestart, started, playing>>
  /\ UNCHANGED notShow

\* getNextImage line 234: fetchPhotos(config, 0, true) returns newPhotos.
FallbackNewDone(s, budget) ==
  /\ serve[s].pc = "fbNew"
  /\ \E newPhotos \in FetchResults(0, budget) :
       /\ failures' = failures + Failed(0, newPhotos)
       /\ LET me == serve[s]
              nextOffset == me.currentOffset + synologyMaxPhotos
              unseenNewPhotos == FilterShown(newPhotos, me.allShownSet)
          IN Install(
               IF newPhotos # <<>>
               THEN IF unseenNewPhotos # <<>>
                    THEN [Fetched(s) EXCEPT !.sv[s].pc = "fbGather", !.sv[s].goff = 0]
                    ELSE [Fetched(s) EXCEPT !.sv[s].pc = "fbGather",
                                       !.sv[s].goff = nextOffset]
               ELSE [Fetched(s) EXCEPT !.sv[s].pc = "fbNext"])
  /\ UNCHANGED <<showAllImagesBeforeRestart, started, playing>>
  /\ UNCHANGED notShow

\* getNextImage line 252: fetchPhotos(config, nextOffset, false) returns.
FallbackNextDone(s, budget) ==
  /\ serve[s].pc = "fbNext"
  /\ LET nextOffset == serve[s].currentOffset + synologyMaxPhotos
     IN \E nextBatchPhotos \in FetchResults(nextOffset, budget) :
          /\ failures' = failures + Failed(nextOffset, nextBatchPhotos)
          /\ Install(
               IF nextBatchPhotos # <<>>
               THEN [Fetched(s) EXCEPT !.sv[s].pc = "fbGather",
                                  !.sv[s].goff = nextOffset]
               ELSE [resetShownImagesTracker(Fetched(s))
                       EXCEPT !.sv[s].pc = "fbGather", !.sv[s].goff = 0,
                              !.sv[s].reset = TRUE])
  /\ UNCHANGED <<showAllImagesBeforeRestart, started, playing>>
  /\ UNCHANGED notShow

\* getNextImage lines 242-269: the rollover's gatherImageList returns.
FallbackGatherDone(s, budget) ==
  /\ serve[s].pc = "fbGather"
  /\ \E photos \in FetchResults(serve[s].goff, budget) :
       /\ failures' = failures + Failed(serve[s].goff, photos)
       /\ LET S1 == gatherImageList(Fetched(s), photos, serve[s].goff)
          IN Install(IF isEmpty(S1) THEN Return(S1, s, "emptyNoTimer")
                     ELSE ServeImage(S1, s))
  /\ UNCHANGED <<showAllImagesBeforeRestart, started, playing>>
  /\ UNCHANGED notShow

\* preloadNextBatch line 367: fetchPhotos(config, 0, true) returns.
PreloadNewDone(budget) ==
  /\ preload.pc = "plNew"
  /\ \E newPhotos \in FetchResults(0, budget) :
       /\ failures' = failures + Failed(0, newPhotos)
       /\ LET unseenNewPhotos == FilterShown(newPhotos, preload.allShownSet)
          IN Install(
               IF newPhotos # <<>> /\ unseenNewPhotos # <<>>
               THEN preloadNextBatchEnd(prepareImageList(Start, newPhotos, TRUE))
               ELSE [Start EXCEPT !.pl.pc = "plNext"])
  /\ UNCHANGED <<showAllImagesBeforeRestart, started, playing>>
  /\ UNCHANGED notShow

\* preloadNextBatch line 383: fetchPhotos(config, nextOffset, false) returns.
PreloadNextDone(budget) ==
  /\ preload.pc = "plNext"
  /\ LET nextOffset == preload.currentOffset + synologyMaxPhotos
     IN \E nextBatchPhotos \in FetchResults(nextOffset, budget) :
          /\ failures' = failures + Failed(nextOffset, nextBatchPhotos)
          /\ Install(
               IF nextBatchPhotos # <<>>
               THEN preloadNextBatchEnd(
                      prepareImageList(Start, nextBatchPhotos, TRUE))
               ELSE preloadNextBatchEnd(Start))
  /\ UNCHANGED <<showAllImagesBeforeRestart, started, playing>>
  /\ UNCHANGED notShow

\* preloadNextBatch lines 391-395: something inside the try block throws
\* while the call waits; catch logs it and finally clears the flag.
PreloadThrows(budget) ==
  /\ preload.pc # "idle"
  /\ failures < budget
  /\ failures' = failures + 1
  /\ Install(preloadNextBatchEnd(Start))
  /\ UNCHANGED <<showAllImagesBeforeRestart, started, playing>>
  /\ UNCHANGED notShow

\* pause(): BACKGROUNDSLIDESHOW_PAUSE.
Pause ==
  /\ started
  /\ playing
  /\ playing' = FALSE
  /\ Install(stopAllTimers(Request("pause")))
  /\ UNCHANGED <<showAllImagesBeforeRestart, started, failures>>
  /\ UNCHANGED notShow

\* play(): BACKGROUNDSLIDESHOW_PLAY.
Play ==
  /\ started
  /\ ~playing
  /\ playing' = TRUE
  /\ Install(startSlideshowTimer(Request("play")))
  /\ UNCHANGED <<showAllImagesBeforeRestart, started, failures>>
  /\ UNCHANGED notShow

\* The List Manager on its own: its operations called in any order.
BatchLists ==
  {l \in UNION {[1..n -> Photos] : n \in 0..NumPhotos} :
     \A i, j \in 1..Len(l) : i # j => l[i] # l[j]}

ListUnchanged ==
  /\ UNCHANGED <<showAllImagesBeforeRestart, started, failures, playing>>
  /\ UNCHANGED notShow

ListPrepare(images, isPreload) ==
  /\ Install(prepareImageList(Start, images, isPreload))
  /\ ListUnchanged

ListNext ==
  /\ Install(ImageListManager_getNextImage(Start))
  /\ ListUnchanged

ListPrevious ==
  /\ Install(getPreviousImage(Start))
  /\ ListUnchanged

ListSwitch ==
  /\ Install(switchToNextBatch(Start))
  /\ ListUnchanged

NextList ==
  \/ \E images \in BatchLists, isPreload \in BOOLEAN :
       ListPrepare(images, isPreload)
  \/ ListNext
  \/ ListPrevious
  \/ ListSwitch

InitShow ==
  /\ imageList = <<>>
  /\ index = 0
  /\ nextBatchList = <<>>
  /\ currentBatchOffset = 0
  /\ trackerFile = {}
  /\ alreadyShownSet = {}
  /\ isRetryingImageLoad = FALSE
  /\ isLoadingNextBatch = FALSE
  /\ retryTimers = 0
  /\ started = FALSE
  /\ serve = [s \in Slots |-> IdleCall]
  /\ preload = IdlePreload
  /\ slideshowTimer = FALSE
  /\ failures = 0
  /\ playing = TRUE
  /\ servedSet = {}
  /\ dupBeforeAll = FALSE
  /\ ret = "none"
  /\ showAllImagesBeforeRestart = FALSE
  /\ obs = NoObs

NextShow ==
  \/ Initialize
  \/ \E s \in Slots : InitGatherDone(s, MaxFailures)
  \/ \E s \in Slots : TimerFire(s)
  \/ \E s \in Slots : NextRequest(s)
  \/ \E s \in Slots : RetryFire(s)
  \/ \E s \in Slots : GatherADone(s, MaxFailures)
  \/ \E s \in Slots : FallbackNewDone(s, MaxFailures)
  \/ \E s \in Slots : FallbackNextDone(s, MaxFailures)
  \/ \E s \in Slots : FallbackGatherDone(s, MaxFailures)
  \/ PreloadNewDone(MaxFailures)
  \/ PreloadNextDone(MaxFailures)
  \/ PreloadThrows(MaxFailures)
  \/ Pause
  \/ Play

\* The serve calls alone (timer-, NEXT- and retry-driven) with every fetch
\* outcome, without pause and play.
NextRetry ==
  \/ Initialize
  \/ \E s \in Slots : InitGatherDone(s, MaxRetryFailures)
  \/ \E s \in Slots : TimerFire(s)
  \/ \E s \in Slots : NextRequest(s)
  \/ \E s \in Slots : RetryFire(s)
  \/ \E s \in Slots : GatherADone(s, MaxRetryFailures)
  \/ \E s \in Slots : FallbackNewDone(s, MaxRetryFailures)
  \/ \E s \in Slots : FallbackNextDone(s, MaxRetryFailures)
  \/ \E s \in Slots : FallbackGatherDone(s, MaxRetryFailures)
  \/ PreloadNewDone(MaxRetryFailures)
  \/ PreloadNextDone(MaxRetryFailures)
  \/ PreloadThrows(MaxRetryFailures)

\* The slideshow left to itself: only the display timer drives serve calls
\* and every fetch succeeds (budget 0).
NextServe ==
  \/ Initialize
  \/ \E s \in Slots : InitGatherDone(s, 0)
  \/ \E s \in Slots : TimerFire(s)
  \/ \E s \in Slots : FallbackNewDone(s, 0)
  \/ \E s \in Slots : FallbackGatherDone(s, 0)
  \/ PreloadNewDone(0)
  \/ PreloadNextDone(0)

\* The slideshow with the four requests (NEXT, PREVIOUS, PAUSE, PLAY);
\* only the fetches of gatherImageList may fail.
NextControl ==
  \/ Initialize
  \/ \E s \in Slots : InitGatherDone(s, MaxFailures)
  \/ \E s \in Slots : TimerFire(s)
  \/ \E s \in Slots : NextRequest(s)
  \/ \E s \in Slots : PrevRequest(s)
  \/ \E s \in Slots : RetryFire(s)
  \/ \E s \in Slots : GatherADone(s, MaxFailures)
  \/ \E s \in Slots : FallbackNewDone(s, 0)
  \/ \E s \in Slots : FallbackGatherDone(s, 0)
  \/ PreloadNewDone(0)
  \/ PreloadNextDone(0)
  \/ Pause
  \/ Play

TypeShow ==
  /\ index \in 0..synologyMaxPhotos
  /\ currentBatchOffset \in 0..(NumPhotos + 3 * synologyMaxPhotos)
  /\ retryTimers \in 0..MaxRetryTimers

-----------------------------------------------------------------------------
(* Claims about the slideshow                                              *)

\* C1: with showAllImagesBeforeRestart on and every fetch returning the
\* provider's fixed collection, no photo is served a second time before
\* every photo of the collection has been served once.
C1_NoRepeatBeforeAllServed ==
  (showAllImagesBeforeRestart /\ failures = 0) => ~dupBeforeAll

\* C2: whenever a serve call returns while the slideshow is playing, the
\* display timer or a 10-minute retry timer is pending.
C2_TimerPendingAfterServe ==
  (ret # "none" /\ playing) => (slideshowTimer \/ retryTimers > 0)

\* C12: a serve call that finds the batch still empty after its one fetch
\* returns without another fetch and leaves a 10-minute retry pending; at
\* any time at most one such retry timer is pending.
C12_OneRetryTimer ==
  /\ retryTimers <= 1
  /\ ret = "emptyRetry" => (obs.awaited = 1 /\ retryTimers = 1)

\* C13: a serve call that finds the cursor at the end of the batch and a
\* batch stashed switches to the stash and serves its first item, and that
\* serve call issues no provider fetch: it waits for none and starts no
\* preload (whose first statement after the guard is a fetch).
C13_SwitchIssuesNoFetch ==
  obs.switched =>
    /\ ret = "served"
    /\ obs.image = obs.stash[1]
    /\ imageList = obs.stash
    /\ index = 1
    /\ obs.awaited = 0
    /\ ~obs.started

\* C13 as amended: the switching serve call waits for no provider fetch; a
\* fetch leaves it only as the first fetch of a background preload, started
\* when none was in flight.
C13_SwitchAwaitsNoFetch ==
  obs.switched =>
    /\ ret = "served"
    /\ obs.image = obs.stash[1]
    /\ imageList = obs.stash
    /\ index = 1
    /\ obs.awaited = 0
    /\ obs.started <=> ~obs.wasLoading

C13_Witness ==
  /\ obs.switched
  /\ ret = "served"
  /\ obs.image = obs.stash[1]
  /\ obs.started

\* C14: a serve call that reaches the low-water test starts a preload
\* exactly when at most 2 items remain and no preload is in flight; the
\* in-flight flag is set exactly while the one preloadNextBatch runs, so it
\* is cleared however the preload ends; a step of the preload changes
\* neither the current batch nor its cursor.
C14_PreloadGuard ==
  /\ obs.checked => (obs.started <=> (obs.remaining <= 2 /\ ~obs.wasLoading))
  /\ obs.started => obs.checked
  /\ isLoadingNextBatch <=> preload.pc # "idle"

C15_ExhaustedRestartsFromZero ==
  (obs.from >= 0 /\ failures = 0
     /\ Page(obs.from + synologyMaxPhotos) = <<>>) =>
    /\ ret = "served"
    /\ obs.reset
    /\ currentBatchOffset = 0

\* C16: with a collection larger than one page and every fetch succeeding,
\* a rollover that loads a batch asks for the page after the current one as
\* long as the provider has photos there (offset 0 comes again only after
\* that), and every photo of the collection is eventually served, with
\* showAllImagesBeforeRestart on as well as off.
C16_RolloverAdvances ==
  (obs.from >= 0 /\ Page(obs.from + synologyMaxPhotos) # <<>>) =>
    currentBatchOffset = obs.from + synologyMaxPhotos

C16_EveryPhotoServed ==
  /\ []C16_RolloverAdvances
  /\ \A p \in Photos : <>(p \in servedSet)

\* The provider offsets a page can be fetched from, and the one a batch was
\* fetched from: pages do not overlap, so the photos of a batch name it.
PageOffsets == {o \in 0..NumPhotos : o % synologyMaxPhotos = 0}
FetchedAt(batch) ==
  CHOOSE o \in PageOffsets : Range(batch) \subseteq Range(Page(o))

\* C38: the current batch offset equals the provider offset the current
\* batch was fetched from: after a serve call has switched to a preloaded
\* batch that was fetched at offset o, the offset is o.
C38_OffsetFollowsSwitch ==
  (obs.switched /\ obs.stash # <<>>) =>
    /\ imageList = obs.stash
    /\ currentBatchOffset = FetchedAt(obs.stash)

\* C32: the cursor of the List Manager stays between 0 and the length of
\* the batch; getNextImage returns the item at the cursor and moves the
\* cursor on by one while the cursor is below the length, and returns none
\* and leaves cursor and batch alone at the end of the batch and for an
\* empty batch - for any sequence of prepare, next, previous and switch.
C32_CursorWithinBatch ==
  /\ [](0 <= index /\ index <= Len(imageList))
  /\ [][ListNext =>
         /\ imageList' = imageList
         /\ IF index < Len(imageList)
            THEN obs'.image = imageList[index + 1] /\ index' = index + 1
            ELSE obs'.image = 0 /\ index' = index]_vars

\* The last item of a batch of three was returned: the cursor is at the end.
C32_Witness ==
  /\ Len(imageList) = NumPhotos
  /\ index = Len(imageList)
  /\ obs.image = imageList[index]
  /\ nextBatchList # <<>>

\* C25: a PREVIOUS request serves the item just before the one on display:
\* with the item at position k >= 1 of the batch on display, the item at
\* position k - 1, and with the first item on display, the first item again.
\* (The cursor is one past the item on display.)
C25_PreviousServesItemBefore ==
  [][\A s \in Slots :
       (/\ PrevRequest(s)
        /\ ret' = "served"
        /\ ~obs'.switched
        /\ index >= 1) =>
          obs'.image = imageList[IF index >= 2 THEN index - 1 ELSE 1]]_vars

\* C26: a NEXT or PREVIOUS request restarts the display timer only if the
\* timer was running when the request arrived: after a request that found
\* the timer stopped, the image has changed and the timer is still stopped.
C26_RequestKeepsTimerState ==
  [][\A s \in Slots :
       ((NextRequest(s) \/ PrevRequest(s)) /\ ret' = "served") =>
          (slideshowTimer' <=> slideshowTimer)]_vars

\* C27: after a PAUSE request no image is served by a timer (the display
\* timer, the retry timer) until a PLAY, NEXT or PREVIOUS request arrives.
C27_NoTimerServeWhilePaused ==
  [][\A s \in Slots :
       ((TimerFire(s) \/ RetryFire(s)) /\ obs.quiet) => obs'.image = 0]_vars

-----------------------------------------------------------------------------
(* ExifExtractor: reverse geocoding queue                                  *)

MaxTasks == 3                 \* geocoding tasks enqueued in one run
MaxDrainLoops == 2            \* processGeocodingQueue loops that could coexist
TickMs == 2500                \* granularity of the clock
MaxTicks == 8                 \* length of the run, in ticks

geocodingRateLimitMs == 5000  \* 5 seconds between requests
HttpTimeoutMs == 10000        \* axios timeout of the Nominatim request

\* Date.now() when the process starts: far above the initial
\* lastGeocodingRequestTime = 0, so the first request never waits.
StartTime == 2 * geocodingRateLimitMs

DrainSlots == 1..MaxDrainLoops

\* The ways a Nominatim request can end (reverseGeocode, lines 691-858).
Outcomes == {"address", "http4xx", "emptyBody", "errorPayload",
             "noDisplayName", "timeout", "networkError"}

notGeo == <<showVars, dbVars, cacheVars, sweepVars, metaVars, extraVars>>

notDb == <<showVars, geoVars, cacheVars, sweepVars, metaVars, extraVars>>

notCache == <<showVars, geoVars, dbVars, sweepVars, metaVars, extraVars>>

GeoCur ==
  [last |-> lastGeocodingRequestTime, queue |-> geocodingQueue,
   flag |-> isProcessingGeocodingQueue, dr |-> drain,
   times |-> reqTimes, order |-> execOrder]

GeoInstall(G) ==
  /\ lastGeocodingRequestTime' = G.last
  /\ geocodingQueue' = G.queue
  /\ isProcessingGeocodingQueue' = G.flag
  /\ drain' = G.dr
  /\ reqTimes' = G.times
  /\ execOrder' = G.order

IdleDrain == [pc |-> "idle", task |-> 0, wakeAt |-> 0, start |-> 0]

\* reverseGeocode line 692: axios.get is called, the request leaves.
SendRequest(G, d) ==
  [G EXCEPT !.times = Append(@, now),
            !.dr[d].pc = "http", !.dr[d].start = now]

\* reverseGeocode lines 680-688: wait out the rest of the rate limit.
reverseGeocode(G, d) ==
  LET timeSinceLastRequest == now - G.last
  IN IF timeSinceLastRequest < geocodingRateLimitMs
     THEN [G EXCEPT !.dr[d].pc = "rateWait",
                    !.dr[d].wakeAt = now + (geocodingRateLimitMs
                                             - timeSinceLastRequest)]
     ELSE SendRequest(G, d)

\* reverseGeocode lines 703-768 and 858: which endings record the time.
UpdatesLastRequestTime(outcome) == outcome # "noDisplayName"

\* A faulty variant: the flag stays set when the loop ends.
DrainLoop_KeepFlag(G, d) ==
  IF G.queue # <<>>
  THEN LET task == Head(G.queue)
           G1 == [G EXCEPT !.queue = Tail(@), !.order = Append(@, task),
                           !.dr[d] = [IdleDrain EXCEPT !.task = task]]
       IN reverseGeocode(G1, d)
  ELSE [G EXCEPT !.dr[d] = IdleDrain]

\* processGeocodingQueue lines 871-882: the while loop, from its test.
DrainLoop(G, d) ==
  IF G.queue # <<>>
  THEN LET task == Head(G.queue)
           G1 == [G EXCEPT !.queue = Tail(@), !.order = Append(@, task),
                           !.dr[d] = [IdleDrain EXCEPT !.task = task]]
       IN reverseGeocode(G1, d)
  ELSE [G EXCEPT !.flag = FALSE, !.dr[d] = IdleDrain]

\* A faulty variant: the re-entrancy guard is missing.
processGeocodingQueue_NoGuard(G, d) == DrainLoop([G EXCEPT !.flag = TRUE], d)

\* processGeocodingQueue lines 865-869: the re-entrancy guard.
processGeocodingQueue(G, d) ==
  IF G.flag THEN G ELSE DrainLoop([G EXCEPT !.flag = TRUE], d)

FreeDrain(d) ==
  /\ drain[d].pc = "idle"
  /\ \A e \in DrainSlots : e < d => drain[e].pc # "idle"

\* enqueueGeocoding: push the task, then call processGeocodingQueue.
EnqueueGeocoding(d) ==
  /\ enqueued < MaxTasks
  /\ FreeDrain(d)
  /\ enqueued' = enqueued + 1
  /\ GeoInstall(processGeocodingQueue(
       [GeoCur EXCEPT !.queue = Append(@, enqueued + 1)], d))
  /\ UNCHANGED now
  /\ UNCHANGED notGeo

\* The rate-limit setTimeout fires (never early, possibly late).
RateWaitDone(d) ==
  /\ drain[d].pc = "rateWait"
  /\ now >= drain[d].wakeAt
  /\ GeoInstall(SendRequest(GeoCur, d))
  /\ UNCHANGED <<now, enqueued>>
  /\ UNCHANGED notGeo

\* The request ends. With an address, updatePhotoAddress is awaited next.
HttpDone(d) ==
  /\ drain[d].pc = "http"
  /\ \E outcome \in Outcomes :
       /\ outcome = "timeout" => now - drain[d].start >= HttpTimeoutMs
       /\ LET G1 == IF UpdatesLastRequestTime(outcome)
                    THEN [GeoCur EXCEPT !.last = now] ELSE GeoCur
          IN GeoInstall(IF outcome = "address"
                        THEN [G1 EXCEPT !.dr[d].pc = "update"]
                        ELSE DrainLoop(G1, d))
  /\ UNCHANGED <<now, enqueued>>
  /\ UNCHANGED notGeo

\* updatePhotoAddress returned: the task resolves, the loop goes on.
UpdateAddressDone(d) ==
  /\ drain[d].pc = "update"
  /\ GeoInstall(DrainLoop(GeoCur, d))
  /\ UNCHANGED <<now, enqueued>>
  /\ UNCHANGED notGeo

\* Time passes, to the end of the run and for as long as a rate-limit wait
\* is still pending. A request cannot stay open beyond the axios timeout.
Tick ==
  /\ \/ now < StartTime + MaxTicks * TickMs
     \/ \E d \in DrainSlots :
          drain[d].pc = "rateWait" /\ now < drain[d].wakeAt
  /\ \A d \in DrainSlots :
       drain[d].pc = "http" => now - drain[d].start < HttpTimeoutMs
  /\ now' = now + TickMs
  /\ UNCHANGED <<lastGeocodingRequestTime, geocodingQueue,
                 isProcessingGeocodingQueue, drain, enqueued, reqTimes,
                 execOrder>>
  /\ UNCHANGED notGeo

InitGeo ==
  /\ now = StartTime
  /\ lastGeocodingRequestTime = 0
  /\ geocodingQueue = <<>>
  /\ isProcessingGeocodingQueue = FALSE
  /\ drain = [d \in DrainSlots |-> IdleDrain]
  /\ enqueued = 0
  /\ reqTimes = <<>>
  /\ execOrder = <<>>

NextGeo ==
  \/ \E d \in DrainSlots : EnqueueGeocoding(d)
  \/ \E d \in DrainSlots : RateWaitDone(d)
  \/ \E d \in DrainSlots : HttpDone(d)
  \/ \E d \in DrainSlots : UpdateAddressDone(d)
  \/ Tick

-----------------------------------------------------------------------------
(* Claims about the geocoding queue                                        *)

\* C3: any two consecutive requests sent to the geocoding service start at
\* least geocodingRateLimitMs apart, whatever the outcome of the earlier one.
C3_RequestsSpaced ==
  \A i \in 1..(Len(reqTimes) - 1) :
    reqTimes[i + 1] - reqTimes[i] >= geocodingRateLimitMs

Running == {d \in DrainSlots : drain[d].pc # "idle"}

\* C4: at most one geocoding task executes at any time, exactly one drain
\* loop runs while the flag is set, and tasks start in enqueue order.
C4_SingleDrainInOrder ==
  /\ Cardinality(Running) <= 1
  /\ isProcessingGeocodingQueue <=> Cardinality(Running) = 1
  /\ execOrder = [i \in 1..Len(execOrder) |-> i]
  /\ Len(execOrder) + Len(geocodingQueue) = enqueued

\* The task is over: its execution began and no loop is at it any more.
TaskDone(i) ==
  /\ \E n \in 1..Len(execOrder) : execOrder[n] = i
  /\ \A d \in DrainSlots : drain[d].pc # "idle" => drain[d].task # i

\* C34: every geocoding task that is enqueued is executed in the end, and
\* once only; and the drain loop is idle (the flag is down) whenever the
\* queue is empty and no task is running - whether requests fail, and
\* whenever tasks are enqueued.
C34_EveryTaskExecutedOnce ==
  /\ \A i \in 1..MaxTasks : (enqueued >= i) ~> TaskDone(i)
  /\ [](\A m, n \in 1..Len(execOrder) : execOrder[m] = execOrder[n] => m = n)
  /\ []((geocodingQueue = <<>> /\ Running = {}) =>
          ~isProcessingGeocodingQueue)

\* Three tasks, the later ones enqueued while the loop was running, are
\* all over, and the loop is idle again.
C34_Witness ==
  /\ enqueued = MaxTasks
  /\ \A i \in 1..MaxTasks : TaskDone(i)
  /\ Len(reqTimes) = MaxTasks
  /\ geocodingQueue = <<>>
  /\ ~isProcessingGeocodingQueue

\* A task was enqueued while an earlier one was awaiting its response, and
\* a later one is still queued while the second runs.
C4_Witness ==
  /\ Len(execOrder) = 2
  /\ geocodingQueue # <<>>
  /\ \E d \in DrainSlots : drain[d].pc \in {"rateWait", "http"}

-----------------------------------------------------------------------------
(* ExifExtractor: the metadata database file.                               *)
(* A file's text is a sequence of tokens; writeFile is open-with-truncate   *)
(* followed by the write of the text at offset 0, so a second writer that   *)
(* opens the same path truncates what the first one wrote, and a write      *)
(* through a descriptor follows the file across a rename.                   *)

MaxProcs == 2
MaxCalls == 2

Procs == 1..MaxProcs
Keys == {"k1", "k2"}
\* The content of a path that does not exist (reads fail with ENOENT).
Absent == <<"ENOENT">>
FileNames == {"main", "backup", "tmp"}

\* PhotoMetadataDatabase values: key lists in insertion order.
Databases ==
  {<<>>} \cup {<<k>> : k \in Keys}
         \cup {<<k, l>> : <<k, l>> \in {kl \in Keys \X Keys : kl[1] # kl[2]}}

EmptyDb == <<>>

\* JSON.stringify(database, null, 2), line 499.
Stringify(db) == <<"{">> \o db \o <<"}">>

Texts == {Stringify(db) : db \in Databases}

\* JSON.parse succeeds exactly on the complete text of some database.
Parses(text) == text \in Texts
Parse(text) == CHOOSE db \in Databases : Stringify(db) = text

\* data.trim() is empty, lines 434 and 449.
IsBlank(text) == text = <<>>

Prefixes(text) == {SubSeq(text, 1, n) : n \in 0..(Len(text) - 1)}

\* A write of `text` at offset 0 over the current content of the file.
Overlay(cur, text) ==
  IF Len(text) >= Len(cur) THEN text
  ELSE text \o SubSeq(cur, Len(text) + 1, Len(cur))

\* A faulty variant: the new text is written over the database file itself.
tempPath_InPlace == "main"

\* The path saveMetadataDatabase writes the new text to, line 498.
tempPath == "tmp"

\* Texts that do not parse: empty, and truncated.
Corrupt == {<<>>, <<"{">>, <<"{", "k1">>}

IdleProc ==
  [pc |-> "idle", op |-> "none", db |-> EmptyDb, fd |-> "none",
   wfail |-> FALSE, alone |-> FALSE, mainAtStart |-> Absent,
   mainRead |-> Absent, backupSeen |-> Absent]

NoRet ==
  [kind |-> "none", wfail |-> FALSE, alone |-> FALSE, mainAtStart |-> Absent,
   mainRead |-> Absent, backupSeen |-> Absent, result |-> EmptyDb]

Others(p) == Procs \ {p}

\* Descriptors of the other writers after rename(tmp, main): the one open
\* on the temporary file now writes to the database file, one open on the
\* replaced database file writes to an unlinked file.
AfterRename(q) ==
  IF proc[q].fd = "tmp" THEN "main"
  ELSE IF proc[q].fd = "main" THEN "orphan" ELSE proc[q].fd

\* Descriptors of the other writers after unlink(name).
AfterUnlink(q, name) == IF proc[q].fd = name THEN "orphan" ELSE proc[q].fd

\* The value a finished call hands back: a save started by
\* loadMetadataDatabase (line 454) resumes the load, which returns backupDb.
ReturnOf(p) ==
  IF proc[p].op = "load"
  THEN [NoRet EXCEPT !.kind = "load", !.mainRead = proc[p].mainRead,
                     !.backupSeen = proc[p].backupSeen,
                     !.result = proc[p].db]
  ELSE [NoRet EXCEPT !.kind = "save", !.wfail = proc[p].wfail,
                     !.alone = proc[p].alone,
                     !.mainAtStart = proc[p].mainAtStart]

LoadReturn(p, db, seen) ==
  [NoRet EXCEPT !.kind = "load", !.mainRead = files["main"],
                !.backupSeen = seen, !.result = db]

\* saveMetadataDatabase is entered, lines 484-491: await access().
CallSave(p, db) ==
  /\ proc[p].pc = "idle"
  /\ calls < MaxCalls
  /\ calls' = calls + 1
  /\ proc' = [q \in Procs |->
       IF q = p
       THEN [IdleProc EXCEPT !.pc = "access", !.op = "save", !.db = db,
               !.mainAtStart = files["main"],
               !.alone = \A r \in Others(p) : proc[r].pc = "idle"]
       ELSE [proc[q] EXCEPT !.alone = FALSE]]
  /\ dbRet' = NoRet
  /\ UNCHANGED <<files, startOk>>
  /\ UNCHANGED notDb

\* access() settles, line 491: copy if the file exists, else go on.
SaveAccess(p) ==
  /\ proc[p].pc = "access"
  /\ proc' = [proc EXCEPT ![p].pc =
       IF files["main"] # Absent THEN "copy" ELSE "open"]
  /\ dbRet' = NoRet
  /\ UNCHANGED <<files, calls, startOk>>
  /\ UNCHANGED notDb

\* copyFile(main, backup) settles, line 493; a failure is swallowed (494).
SaveCopy(p) ==
  /\ proc[p].pc = "copy"
  /\ \E ok \in BOOLEAN :
       files' = IF ok /\ files["main"] # Absent
                THEN [files EXCEPT !["backup"] = files["main"]]
                ELSE files
  /\ proc' = [proc EXCEPT ![p].pc = "open"]
  /\ dbRet' = NoRet
  /\ UNCHANGED <<calls, startOk>>
  /\ UNCHANGED notDb

\* writeFile(tempPath) opens the file, line 501: created or truncated.  A
\* failure to open is caught at line 507.
SaveOpen(p) ==
  /\ proc[p].pc = "open"
  /\ \E ok \in BOOLEAN :
       IF ok
       THEN /\ files' = [files EXCEPT ![tempPath] = <<>>]
            /\ proc' = [proc EXCEPT ![p].pc = "write", ![p].fd = tempPath]
       ELSE /\ files' = files
            /\ proc' = [proc EXCEPT ![p].pc = "cleanup", ![p].wfail = TRUE]
  /\ dbRet' = NoRet
  /\ UNCHANGED <<calls, startOk>>
  /\ UNCHANGED notDb

\* The text written through descriptor fd.
WriteThrough(fd, text) ==
  IF fd \in FileNames /\ files[fd] # Absent
  THEN [files EXCEPT ![fd] = Overlay(files[fd], text)]
  ELSE files

\* writeFile writes and closes, line 501; a failure leaves a prefix of the
\* text behind and is caught at line 507.
SaveWrite(p) ==
  /\ proc[p].pc = "write"
  /\ \/ /\ files' = WriteThrough(proc[p].fd, Stringify(proc[p].db))
        /\ proc' = [proc EXCEPT ![p].pc = "rename", ![p].fd = "none"]
     \/ \E part \in Prefixes(Stringify(proc[p].db)) :
          /\ files' = WriteThrough(proc[p].fd, part)
          /\ proc' = [proc EXCEPT ![p].pc = "cleanup", ![p].fd = "none",
                                  ![p].wfail = TRUE]
  /\ dbRet' = NoRet
  /\ UNCHANGED <<calls, startOk>>
  /\ UNCHANGED notDb

\* rename(tempPath, main) settles, line 504; ENOENT is caught at line 507.
SaveRename(p) ==
  /\ proc[p].pc = "rename"
  /\ IF files[tempPath] = Absent
     THEN /\ proc' = [proc EXCEPT ![p].pc = "cleanup"]
          /\ dbRet' = NoRet
          /\ files' = files
     ELSE /\ files' = IF tempPath = "main" THEN files
                      ELSE [files EXCEPT !["main"] = files[tempPath],
                                         ![tempPath] = Absent]
          /\ proc' = [q \in Procs |->
               IF q = p THEN IdleProc
               ELSE [proc[q] EXCEPT !.fd = AfterRename(q)]]
          /\ dbRet' = ReturnOf(p)
  /\ UNCHANGED <<calls, startOk>>
  /\ UNCHANGED notDb

\* The catch block, lines 507-517: unlink(tempPath), errors ignored, and the
\* call returns without raising.
SaveCleanup(p) ==
  /\ proc[p].pc = "cleanup"
  /\ files' = [files EXCEPT ![tempPath] = Absent]
  /\ proc' = [q \in Procs |->
       IF q = p THEN IdleProc
       ELSE [proc[q] EXCEPT !.fd = AfterUnlink(q, tempPath)]]
  /\ dbRet' = ReturnOf(p)
  /\ UNCHANGED <<calls, startOk>>
  /\ UNCHANGED notDb

\* loadMetadataDatabase is entered, lines 426-431: await readFile(main).
CallLoad(p) ==
  /\ proc[p].pc = "idle"
  /\ calls < MaxCalls
  /\ calls' = calls + 1
  /\ proc' = [q \in Procs |->
       IF q = p THEN [IdleProc EXCEPT !.pc = "lread", !.op = "load"]
       ELSE [proc[q] EXCEPT !.alone = FALSE]]
  /\ dbRet' = NoRet
  /\ UNCHANGED <<files, startOk>>
  /\ UNCHANGED notDb

\* readFile(main) settles, lines 431-446 and 468-475.
LoadRead(p) ==
  /\ proc[p].pc = "lread"
  /\ LET data == files["main"] IN
     IF data = Absent \/ IsBlank(data)
     THEN /\ proc' = [proc EXCEPT ![p] = IdleProc]
          /\ dbRet' = LoadReturn(p, EmptyDb, files["backup"])
     ELSE IF Parses(data)
     THEN /\ proc' = [proc EXCEPT ![p] = IdleProc]
          /\ dbRet' = LoadReturn(p, Parse(data), files["backup"])
     ELSE /\ proc' = [proc EXCEPT ![p].pc = "lbackup", ![p].mainRead = data]
          /\ dbRet' = NoRet
  /\ UNCHANGED <<files, calls, startOk>>
  /\ UNCHANGED notDb

\* readFile(backup) settles, lines 447-466: a backup that parses is saved
\* back (line 454) before it is returned.
LoadBackup(p) ==
  /\ proc[p].pc = "lbackup"
  /\ LET backupData == files["backup"] IN
     IF backupData # Absent /\ ~IsBlank(backupData) /\ Parses(backupData)
     THEN /\ proc' = [proc EXCEPT ![p].pc = "access",
                        ![p].db = Parse(backupData),
                        ![p].backupSeen = backupData,
                        ![p].mainAtStart = files["main"]]
          /\ dbRet' = NoRet
     ELSE /\ proc' = [proc EXCEPT ![p] = IdleProc]
          /\ dbRet' = [NoRet EXCEPT !.kind = "load",
                         !.mainRead = proc[p].mainRead,
                         !.backupSeen = backupData, !.result = EmptyDb]
  /\ UNCHANGED <<files, calls, startOk>>
  /\ UNCHANGED notDb

\* What an earlier run of the module, or a crash during it, left on disk.
PriorRun(main, backup) ==
  /\ calls = 0
  /\ files = [n \in FileNames |-> Absent]
  /\ files' = [files EXCEPT !["main"] = main, !["backup"] = backup]
  /\ startOk' = (main = Absent \/ Parses(main))
  /\ UNCHANGED <<proc, calls, dbRet>>
  /\ UNCHANGED notDb

InitDb ==
  /\ files = [n \in FileNames |-> Absent]
  /\ proc = [p \in Procs |-> IdleProc]
  /\ calls = 0
  /\ startOk = TRUE
  /\ dbRet = NoRet

NextDb ==
  \/ \E main \in {Stringify(<<"k1">>)} \cup Corrupt,
        backup \in {Absent, Stringify(<<"k2">>), <<"{">>} :
          PriorRun(main, backup)
  \/ \E p \in Procs, db \in Databases : CallSave(p, db)
  \/ \E p \in Procs : SaveAccess(p)
  \/ \E p \in Procs : SaveCopy(p)
  \/ \E p \in Procs : SaveOpen(p)
  \/ \E p \in Procs : SaveWrite(p)
  \/ \E p \in Procs : SaveRename(p)
  \/ \E p \in Procs : SaveCleanup(p)
  \/ \E p \in Procs : CallLoad(p)
  \/ \E p \in Procs : LoadRead(p)
  \/ \E p \in Procs : LoadBackup(p)

-----------------------------------------------------------------------------
(* Claims about the metadata database file                                  *)

\* C5: the database file always holds the complete text of a database (or
\* does not exist yet), never a partial or unparsable text, also while
\* several saves are interleaved.
C5_MainAlwaysComplete ==
  startOk => (files["main"] = Absent \/ Parses(files["main"]))

\* C6: a save that failed while writing the temporary file, and that no
\* other call overlapped, returns with the database file holding exactly
\* the text it held when the save was called, which still parses if it did.
C6_FailedSaveKeepsMain ==
  (dbRet.kind = "save" /\ dbRet.wfail /\ dbRet.alone) =>
    /\ files["main"] = dbRet.mainAtStart
    /\ Parses(dbRet.mainAtStart) => Parses(files["main"])

\* A lone save over a valid database file has just failed in its write.
C6_Witness ==
  /\ dbRet.kind = "save" /\ dbRet.wfail /\ dbRet.alone
  /\ dbRet.mainAtStart # Absent /\ Parses(dbRet.mainAtStart)
  /\ files["main"] = dbRet.mainAtStart

\* C7: a load that found the database file empty or unparsable returns the
\* content of the backup when the backup parses, and the empty database
\* only when the backup is missing, empty or unparsable.
C7_LoadFallsBackToBackup ==
  (dbRet.kind = "load" /\ dbRet.mainRead # Absent /\ ~Parses(dbRet.mainRead))
    => dbRet.result =
         (IF dbRet.backupSeen # Absent /\ Parses(dbRet.backupSeen)
          THEN Parse(dbRet.backupSeen) ELSE EmptyDb)

\* A load is in the save that restores the database file from the backup
\* it has parsed (line 454), and no other call is running.
Restoring(p) ==
  /\ proc[p].op = "load"
  /\ proc[p].pc \in {"access", "copy", "open", "write", "rename", "cleanup"}
  /\ \A q \in Others(p) : proc[q].pc = "idle"

\* C37: while a load restores an unparsable database file from a backup
\* that parses, the backup is not overwritten with the corrupt text: at
\* every step at least one of the two files holds a complete, parsable
\* database.
C37_OneFileAlwaysParses ==
  \A p \in Procs :
    Restoring(p) => (Parses(files["main"]) \/ Parses(files["backup"]))

-----------------------------------------------------------------------------
(* ImageCache: the cache directory, its size counter, eviction and clear.   *)
(* Sizes are in megabytes.  A call is cut at its awaits; the effect of an    *)
(* awaited writeFile or unlink on the directory is taken in the step that   *)
(* resumes the call.                                                        *)

MaxSets == 4
MaxEvictions == 2
MaxClears == 1

\* config.imageCacheMaxSize, line 571.
maxCacheSize == 5

MetadataName == "photo_metadata.json"
ImageNames == {"a.jpg", "b.jpg", "c.jpg"}
CacheNames == ImageNames \cup {MetadataName}
Sizes == {1, 3}
EvictSlots == 1..MaxEvictions

\* A faulty variant: no file name is protected.
IsProtected_None(name) == FALSE

\* The protection test of lines 701 and 1028.
IsProtected(name) == name = MetadataName

\* currentCacheSize <= maxCacheSize * 0.9, lines 694-697.
AtTarget(size) == 10 * size <= 9 * maxCacheSize

RECURSIVE SumSizes(_, _)
SumSizes(d, names) ==
  IF names = {} THEN 0
  ELSE LET n == CHOOSE x \in names : TRUE IN d[n] + SumSizes(d, names \ {n})

\* The total size of the files in the cache directory.
DiskTotal == SumSizes(disk, CacheNames)

Without(seq, name) == SelectSeq(seq, LAMBDA n : n # name)

\* The directories initialize() may find, oldest file first.
StartDirs ==
  { <<>>,
    << <<MetadataName, 1>>, <<"a.jpg", 3>> >> }

IdleEvict ==
  [pc |-> "idle", list |-> <<>>, removed |-> FALSE, clean |-> TRUE]

IdleClear == [pc |-> "idle", todo |-> {}]

NoCacheRet == [kind |-> "none", removed |-> FALSE, clean |-> TRUE]

\* The loop of lines 695-705 over the entries still to visit: the entries
\* from the next file to unlink on, or none when the loop ends.
RECURSIVE NextVictim(_, _)
NextVictim(list, size) ==
  IF list = <<>> \/ AtTarget(size) THEN <<>>
  ELSE IF IsProtected(Head(list).name) THEN NextVictim(Tail(list), size)
  ELSE list

\* The eviction continues its loop over `rest` with the counter at `size`.
EvictLoop(e, ev, rest, size) ==
  LET togo == NextVictim(rest, size) IN
  IF togo = <<>>
  THEN /\ evict' = [evict EXCEPT ![e] = IdleEvict]
       /\ cacheRet' = [kind |-> "evict", removed |-> ev.removed,
                       clean |-> ev.clean]
  ELSE /\ evict' = [evict EXCEPT ![e] = [ev EXCEPT !.pc = "unlink",
                                                   !.list = togo]]
       /\ cacheRet' = NoCacheRet

\* initialize(), lines 564-602: calculateCacheSize() over the directory.
initializeCache(dir) ==
  /\ ~cacheReady
  /\ cacheReady' = TRUE
  /\ disk' = [n \in CacheNames |->
       IF \E k \in 1..Len(dir) : dir[k][1] = n
       THEN dir[CHOOSE k \in 1..Len(dir) : dir[k][1] = n][2] ELSE 0]
  /\ byAge' = [k \in 1..Len(dir) |-> dir[k][1]]
  /\ currentCacheSize' = SumSizes(disk', CacheNames)
  /\ hadMetadata' = (disk'[MetadataName] > 0)
  /\ UNCHANGED <<sets, evict, clearing, clears, outOfOrder, cacheRet,
                 direct>>
  /\ UNCHANGED notCache

\* evictOldFiles() is entered, lines 659-671: nothing to do at or below
\* the maximum, else await readdir.  `running` are the calls in progress.
evictOldFiles(e, running) ==
  IF currentCacheSize' <= maxCacheSize
  THEN /\ e = 1
       /\ evict' = running
  ELSE /\ evict[e].pc = "idle"
       /\ \A f \in EvictSlots : f < e => evict[f].pc # "idle"
       /\ evict' = [running EXCEPT ![e] = [IdleEvict EXCEPT !.pc = "list"]]

\* set(), lines 832-915: the file is written (or overwritten), the counter
\* grows by the size written, and an eviction is started when the counter
\* exceeds the maximum.
set(name, size, e) ==
  /\ cacheReady
  /\ sets < MaxSets
  /\ sets' = sets + 1
  /\ disk' = [disk EXCEPT ![name] = size]
  /\ byAge' = Append(Without(byAge, name), name)
  /\ currentCacheSize' = currentCacheSize + size
  /\ evictOldFiles(e, [f \in EvictSlots |->
       IF evict[f].pc = "idle" THEN evict[f]
       ELSE [evict[f] EXCEPT !.clean = FALSE]])
  /\ cacheRet' = NoCacheRet
  /\ UNCHANGED <<cacheReady, clearing, clears, outOfOrder, hadMetadata, direct>>
  /\ UNCHANGED notCache

\* evictOldFiles() called directly.
EvictCall(e) ==
  /\ cacheReady
  /\ currentCacheSize' = currentCacheSize
  /\ evictOldFiles(e, evict)
  /\ cacheRet' = IF currentCacheSize <= maxCacheSize
                 THEN [NoCacheRet EXCEPT !.kind = "evict"] ELSE NoCacheRet
  /\ direct' = TRUE
  /\ UNCHANGED <<cacheReady, disk, byAge, sets, clearing, clears, outOfOrder,
                 hadMetadata>>
  /\ UNCHANGED notCache

\* readdir and stat settle, lines 671-692: the listing, sorted by mtime,
\* and the first pass through the loop head.
EvictList(e) ==
  /\ evict[e].pc = "list"
  /\ LET listing == [k \in 1..Len(byAge) |->
                       [name |-> byAge[k], size |-> disk[byAge[k]]]]
     IN EvictLoop(e, evict[e], listing, currentCacheSize)
  /\ UNCHANGED <<cacheReady, disk, byAge, currentCacheSize, sets,
                 clearing, clears, outOfOrder, hadMetadata, direct>>
  /\ UNCHANGED notCache

\* Files that are older than `name` in the directory and not protected.
OlderUnprotected(name) ==
  {byAge[k] : k \in {j \in 1..Len(byAge) :
      /\ ~IsProtected(byAge[j])
      /\ \E m \in 1..Len(byAge) : byAge[m] = name /\ j < m}}

\* unlink settles and the eviction resumes, lines 706-718: the file, if it
\* still exists, is removed and the counter shrinks by the size found when
\* listing; an unlink error skips that; the loop goes on.
EvictUnlink(e) ==
  /\ evict[e].pc = "unlink"
  /\ LET ev == evict[e]
         name == Head(ev.list).name
         ok == disk[name] > 0
         size == IF ok THEN currentCacheSize - Head(ev.list).size
                 ELSE currentCacheSize IN
     /\ disk' = [disk EXCEPT ![name] = 0]
     /\ byAge' = Without(byAge, name)
     /\ outOfOrder' = (outOfOrder \/ (ok /\ OlderUnprotected(name) # {}))
     /\ currentCacheSize' = size
     /\ EvictLoop(e, [ev EXCEPT !.removed = @ \/ ok], Tail(ev.list), size)
  /\ UNCHANGED <<cacheReady, sets, clearing, clears, hadMetadata, direct>>
  /\ UNCHANGED notCache

\* clear() is entered, lines 1010-1019: flushAll, await readdir.
ClearCall ==
  /\ cacheReady
  /\ clearing.pc = "idle"
  /\ clears < MaxClears
  /\ clears' = clears + 1
  /\ clearing' = [IdleClear EXCEPT !.pc = "list"]
  /\ cacheRet' = NoCacheRet
  /\ UNCHANGED <<cacheReady, disk, byAge, currentCacheSize, sets,
                 evict, outOfOrder, hadMetadata, direct>>
  /\ UNCHANGED notCache

\* readdir settles, lines 1019-1031: an unlink is issued for every listed
\* file that is not protected.
ClearList ==
  /\ clearing.pc = "list"
  /\ clearing' = [pc |-> "unlink",
                  todo |-> {n \in CacheNames : disk[n] > 0 /\ ~IsProtected(n)}]
  /\ cacheRet' = NoCacheRet
  /\ UNCHANGED <<cacheReady, disk, byAge, currentCacheSize, sets, evict,
                 clears, outOfOrder, hadMetadata, direct>>
  /\ UNCHANGED notCache

\* The unlinks settle and clear() resumes, lines 1033-1047; unlink errors
\* are ignored and the counter is set to 0.
ClearDone ==
  /\ clearing.pc = "unlink"
  /\ disk' = [n \in CacheNames |-> IF n \in clearing.todo THEN 0 ELSE disk[n]]
  /\ byAge' = SelectSeq(byAge, LAMBDA n : n \notin clearing.todo)
  /\ clearing' = IdleClear
  /\ currentCacheSize' = 0
  /\ cacheRet' = [NoCacheRet EXCEPT !.kind = "clear"]
  /\ UNCHANGED <<cacheReady, sets, evict, clears, outOfOrder, hadMetadata,
                 direct>>
  /\ UNCHANGED notCache

InitCache ==
  /\ cacheReady = FALSE
  /\ disk = [n \in CacheNames |-> 0]
  /\ byAge = <<>>
  /\ currentCacheSize = 0
  /\ sets = 0
  /\ evict = [e \in EvictSlots |-> IdleEvict]
  /\ clearing = IdleClear
  /\ clears = 0
  /\ direct = FALSE
  /\ outOfOrder = FALSE
  /\ hadMetadata = FALSE
  /\ cacheRet = NoCacheRet

NextCache ==
  \/ \E dir \in StartDirs : initializeCache(dir)
  \/ \E name \in ImageNames, size \in Sizes, e \in EvictSlots :
       set(name, size, e)
  \/ \E e \in EvictSlots : EvictCall(e)
  \/ \E e \in EvictSlots : EvictList(e)
  \/ \E e \in EvictSlots : EvictUnlink(e)
  \/ ClearCall
  \/ ClearList
  \/ ClearDone

-----------------------------------------------------------------------------
(* Claims about the image cache                                             *)

CacheQuiet ==
  /\ \A e \in EvictSlots : evict[e].pc = "idle"
  /\ clearing.pc = "idle"

\* C36: whenever no set, evictOldFiles or clear call is in progress, the
\* running size total equals the sum of the sizes of the image files in
\* the cache directory (the database being kept outside of it).
C36_SizeTotalMatchesDisk ==
  (cacheReady /\ CacheQuiet /\ ~hadMetadata) =>
    currentCacheSize = SumSizes(disk, ImageNames)

\* C8: with set() calls only, once every eviction they started has
\* completed, the directory holds at most maxCacheSize, and at most
\* 0.9 x maxCacheSize right after an eviction that removed files (and that
\* no set() ran alongside).
C8_SizeBoundedAfterEviction ==
  (cacheReady /\ clears = 0 /\ ~direct /\ CacheQuiet) =>
    /\ DiskTotal <= maxCacheSize
    /\ (cacheRet.kind = "evict" /\ cacheRet.removed /\ cacheRet.clean)
         => AtTarget(DiskTotal)

\* C9: an eviction never deletes a file while an older unprotected file is
\* still in the directory.
C9_EvictsOldestFirst == ~outOfOrder

\* C10: photo_metadata.json, once inside the cache directory, is never
\* deleted by set, evictOldFiles or clear.
C10_MetadataNeverDeleted == hadMetadata => disk[MetadataName] > 0

\* photo_metadata.json is the oldest file of the directory, an eviction
\* has walked past it and removed other files, and a clear() has run.
C10_Witness ==
  /\ hadMetadata /\ byAge # <<>> /\ Head(byAge) = MetadataName
  /\ cacheRet.kind = "evict" /\ cacheRet.removed
  /\ clears > 0 /\ clearing.pc = "idle"

-----------------------------------------------------------------------------
(* Specifications                                                          *)

-----------------------------------------------------------------------------
(* ImageCache: preloadImages and processPreloadQueue                       *)

MaxPreloadCalls == 3         \* preloadImages calls in a behaviour
MaxSweeps == 2               \* processPreloadQueue loops that may overlap
imageCachePreloadCount == 2  \* config: images taken from each list

SweepSlots == 1..MaxSweeps

notSweep == <<showVars, geoVars, dbVars, cacheVars, metaVars, extraVars>>

\* The lists preloadImages is given: photos of the batch, each with a url
\* (so the filter on url keeps them all), no photo twice.
ImageLists ==
  {l \in UNION {[1..n -> ImageNames] : n \in 0..3} :
     \A i, j \in 1..Len(l) : i # j => l[i] # l[j]}

IdleSweep == [pc |-> "idle", image |-> ""]

\* processPreloadQueue, the while loop from its head to the next await:
\* images the key table holds are skipped; an empty queue ends the sweep.
RECURSIVE SweepLoop(_, _, _)
SweepLoop(queue, keys, s) ==
  IF queue = <<>>
  THEN /\ preloadQueue' = <<>>
       /\ isPreloading' = FALSE
       /\ sweep' = [sweep EXCEPT ![s] = IdleSweep]
  ELSE IF Head(queue) \in keys
       THEN SweepLoop(Tail(queue), keys, s)
       ELSE /\ preloadQueue' = Tail(queue)
            /\ isPreloading' = TRUE
            /\ sweep' = [sweep EXCEPT ![s] = [pc |-> "download",
                                               image |-> Head(queue)]]

\* The downloads the timeout gave up on: of the round that is running
\* ("round"), or of an earlier one ("old"). When the round ends (ended) the
\* first become the second.
Abandon(ended, ab) ==
  IF ended
  THEN [i \in DOMAIN ab |-> IF ab[i] = "round" THEN "old" ELSE ab[i]]
  ELSE ab

\* preloadImages: the queue is replaced, then processPreloadQueue is called
\* and returns at its guard or starts a sweep in slot s.
preloadImages(images, s) ==
  /\ preloadCalls < MaxPreloadCalls
  /\ preloadCalls' = preloadCalls + 1
  /\ sweep[s].pc = "idle"
  /\ \A r \in SweepSlots : r < s => sweep[r].pc # "idle"
  /\ LET queue == SubSeq(images, 1, Min(Len(images), imageCachePreloadCount))
     IN IF isPreloading \/ queue = <<>>
        THEN /\ preloadQueue' = queue
             /\ UNCHANGED <<isPreloading, sweep>>
        ELSE SweepLoop(queue, cacheKeys, s)
  /\ abandoned' = Abandon(~isPreloading', abandoned)
  /\ UNCHANGED cacheKeys
  /\ UNCHANGED notSweep

\* The download callback delivers data (set() stores it under its key) or
\* nothing, or the 30 s timeout rejects and the loop goes on at once; the
\* download itself is not cancelled.
DownloadDone(s, outcome) ==
  /\ sweep[s].pc = "download"
  /\ IF outcome = "timeout"
     THEN /\ SweepLoop(preloadQueue, cacheKeys, s)
          /\ abandoned' = Abandon(~isPreloading',
                                  [abandoned EXCEPT ![sweep[s].image] = "round"])
          /\ UNCHANGED cacheKeys
     ELSE /\ cacheKeys' = IF outcome = "data"
                          THEN cacheKeys \cup {sweep[s].image} ELSE cacheKeys
          /\ sweep' = [sweep EXCEPT ![s].pc = "delay"]
          /\ UNCHANGED <<preloadQueue, isPreloading, abandoned>>
  /\ UNCHANGED preloadCalls
  /\ UNCHANGED notSweep

\* The callback of a download the timeout gave up on arrives at last:
\* clearTimeout and resolve do nothing any more, set() stores the data.
LateCallback(image, data) ==
  /\ abandoned[image] # "none"
  /\ abandoned' = [abandoned EXCEPT ![image] = "none"]
  /\ cacheKeys' = IF data THEN cacheKeys \cup {image} ELSE cacheKeys
  /\ UNCHANGED <<preloadQueue, isPreloading, sweep, preloadCalls>>
  /\ UNCHANGED notSweep

\* The preloadDelay timeout fires: back to the head of the loop.
DelayDone(s) ==
  /\ sweep[s].pc = "delay"
  /\ SweepLoop(preloadQueue, cacheKeys, s)
  /\ abandoned' = Abandon(~isPreloading', abandoned)
  /\ UNCHANGED <<cacheKeys, preloadCalls>>
  /\ UNCHANGED notSweep

InitSweep ==
  /\ preloadQueue = <<>>
  /\ isPreloading = FALSE
  /\ sweep = [s \in SweepSlots |-> IdleSweep]
  /\ cacheKeys = {}
  /\ preloadCalls = 0
  /\ abandoned = [i \in ImageNames |-> "none"]

NextSweep ==
  \/ \E images \in ImageLists, s \in SweepSlots : preloadImages(images, s)
  \/ \E s \in SweepSlots, outcome \in {"data", "null", "timeout"} :
       DownloadDone(s, outcome)
  \/ \E s \in SweepSlots : DelayDone(s)
  \/ \E image \in ImageNames, data \in BOOLEAN : LateCallback(image, data)

\* C17: at most one preload sweep runs at a time, and a preloadImages call
\* made while a sweep is in flight is dropped entirely: it starts no second
\* sweep and leaves the queue of the sweep in flight as it was.
C17_CallDuringSweepDropped ==
  /\ [](Cardinality({s \in SweepSlots : sweep[s].pc # "idle"}) <= 1)
  /\ [][(preloadCalls' # preloadCalls /\ isPreloading)
          => (preloadQueue' = preloadQueue /\ sweep' = sweep)]_vars

\* C31: a preload sweep comes to its end. An item whose download has not
\* called back within the 30 s is skipped: the sweep goes on, and the item
\* stores nothing while this round runs. isPreloading is set only while a
\* sweep is waiting for a download, its timeout, or the delay after it.
C31_SkippedItemStoresNothing ==
  /\ [][\A image \in ImageNames :
          (abandoned[image] = "round" /\ abandoned'[image] = "none") =>
             cacheKeys' = cacheKeys]_vars
  /\ [](isPreloading => \E s \in SweepSlots : sweep[s].pc # "idle")

-----------------------------------------------------------------------------
(* ExifExtractor: savePhotoMetadata, checkAndLogGeocodingUrl, the tasks of *)
(* the geocoding queue and updatePhotoAddress, over the records of the     *)
(* database. loadMetadataDatabase is the instant of its readFile and       *)
(* saveMetadataDatabase the instant of its rename (SpecDb has their steps).*)

MaxMetaCalls == 3       \* savePhotoMetadata / checkAndLogGeocodingUrl calls
MaxMetaOverlap == 2     \* calls that may overlap

MetaSlots == 1..MaxMetaOverlap

\* A record: absent, capture date only, location without address, location
\* with FullAddress and ShortAddress.
EntryStates == {"none", "date", "loc", "addr"}

NoRecords == [k \in Keys |-> "none"]

IdleMeta == [pc |-> "idle", op |-> "none", key |-> "", md |-> "none",
             db |-> NoRecords]

IdleTask == [pc |-> "idle", key |-> "", db |-> NoRecords]

NoMetaRet == [op |-> "none", key |-> "", md |-> "none", entry |-> "none",
              wrote |-> FALSE, enqueued |-> FALSE, geo |-> "none"]

notMeta == <<showVars, dbVars, cacheVars, sweepVars, now,
             lastGeocodingRequestTime, drain, enqueued, reqTimes, execOrder,
             extraVars>>

\* A faulty variant: the address is not looked at.
NeedsAddress_AnyLocation(entry) == entry \in {"loc", "addr"}

\* entry.location && !entry.FullAddress
NeedsAddress(entry) == entry = "loc"

\* processGeocodingQueue at the head of its loop: the next task runs up to
\* the request of reverseGeocode, or the loop ends.
DrainNext(queue) ==
  IF queue = <<>>
  THEN /\ geocodingQueue' = queue
       /\ isProcessingGeocodingQueue' = FALSE
       /\ geoTask' = IdleTask
  ELSE /\ geocodingQueue' = Tail(queue)
       /\ isProcessingGeocodingQueue' = TRUE
       /\ geoTask' = [pc |-> "geocode", key |-> Head(queue), db |-> NoRecords]

\* enqueueGeocoding: push the task, then processGeocodingQueue, which
\* returns at its guard while a loop is running.
enqueueGeocoding(key) ==
  IF isProcessingGeocodingQueue
  THEN /\ geocodingQueue' = Append(geocodingQueue, key)
       /\ UNCHANGED <<isProcessingGeocodingQueue, geoTask>>
  ELSE DrainNext(Append(geocodingQueue, key))

\* savePhotoMetadata up to its await of loadMetadataDatabase; metadata with
\* neither location nor capture date returns at line 595.
savePhotoMetadata(c, key, md) ==
  /\ metaCalls < MaxMetaCalls
  /\ metaCalls' = metaCalls + 1
  /\ metaCall[c].pc = "idle"
  /\ IF md = "none"
     THEN /\ metaRet' = [NoMetaRet EXCEPT !.op = "save", !.key = key,
                                          !.entry = metaFile[key]]
          /\ UNCHANGED metaCall
     ELSE /\ metaRet' = NoMetaRet
          /\ metaCall' = [metaCall EXCEPT ![c] =
                            [IdleMeta EXCEPT !.pc = "saveLoad", !.op = "save",
                                             !.key = key, !.md = md]]
  /\ UNCHANGED <<metaFile, geoTask, failedKeys>>
  /\ UNCHANGED <<geocodingQueue, isProcessingGeocodingQueue>>
  /\ UNCHANGED notMeta

\* savePhotoMetadata lines 601-630: the database is read; an existing key
\* ends the call (after enqueueing if it needs an address), a new one is
\* added to the copy in memory and saveMetadataDatabase is awaited.
SaveLoaded(c) ==
  /\ metaCall[c].pc = "saveLoad"
  /\ LET me == metaCall[c]
         existingEntry == metaFile[me.key]
     IN IF existingEntry # "none"
        THEN /\ IF NeedsAddress(existingEntry)
                THEN enqueueGeocoding(me.key)
                ELSE UNCHANGED <<geocodingQueue, isProcessingGeocodingQueue,
                                 geoTask>>
             /\ metaCall' = [metaCall EXCEPT ![c] = IdleMeta]
             /\ metaRet' = [NoMetaRet EXCEPT
                              !.op = "save", !.key = me.key, !.md = me.md,
                              !.entry = existingEntry,
                              !.enqueued = NeedsAddress(existingEntry)]
        ELSE /\ metaCall' = [metaCall EXCEPT
                               ![c].pc = "saveWrite",
                               ![c].db = [metaFile EXCEPT ![me.key] = me.md]]
             /\ metaRet' = NoMetaRet
             /\ UNCHANGED <<geocodingQueue, isProcessingGeocodingQueue,
                             geoTask>>
  /\ UNCHANGED <<metaFile, metaCalls, failedKeys>>
  /\ UNCHANGED notMeta

\* savePhotoMetadata lines 630-644: the save has replaced the file, then a
\* record with a location is enqueued; or the save threw (catch, line 642).
SaveWritten(c, ok) ==
  /\ metaCall[c].pc = "saveWrite"
  /\ LET me == metaCall[c]
     IN /\ metaFile' = IF ok THEN me.db ELSE metaFile
        /\ IF ok /\ me.md = "loc"
           THEN enqueueGeocoding(me.key)
           ELSE UNCHANGED <<geocodingQueue, isProcessingGeocodingQueue,
                            geoTask>>
        /\ metaRet' = [NoMetaRet EXCEPT
                         !.op = "save", !.key = me.key, !.md = me.md,
                         !.wrote = ok, !.enqueued = ok /\ me.md = "loc"]
  /\ metaCall' = [metaCall EXCEPT ![c] = IdleMeta]
  /\ UNCHANGED <<metaCalls, failedKeys>>
  /\ UNCHANGED notMeta

\* checkAndLogGeocodingUrl up to its await, called with the photo's location.
checkAndLogGeocodingUrl(c, key) ==
  /\ metaCalls < MaxMetaCalls
  /\ metaCalls' = metaCalls + 1
  /\ metaCall[c].pc = "idle"
  /\ metaCall' = [metaCall EXCEPT ![c] =
                    [IdleMeta EXCEPT !.pc = "checkLoad", !.op = "check",
                                     !.key = key, !.md = "loc"]]
  /\ metaRet' = NoMetaRet
  /\ UNCHANGED <<metaFile, geoTask, failedKeys>>
  /\ UNCHANGED <<geocodingQueue, isProcessingGeocodingQueue>>
  /\ UNCHANGED notMeta

\* checkAndLogGeocodingUrl lines 925-937: the database is read.
CheckLoaded(c) ==
  /\ metaCall[c].pc = "checkLoad"
  /\ LET me == metaCall[c]
         entry == metaFile[me.key]
     IN /\ IF entry # "none" /\ NeedsAddress(entry)
           THEN enqueueGeocoding(me.key)
           ELSE UNCHANGED <<geocodingQueue, isProcessingGeocodingQueue,
                            geoTask>>
        /\ metaRet' = [NoMetaRet EXCEPT
                         !.op = "check", !.key = me.key, !.md = me.md,
                         !.entry = entry,
                         !.enqueued = (entry # "none" /\ NeedsAddress(entry))]
  /\ metaCall' = [metaCall EXCEPT ![c] = IdleMeta]
  /\ UNCHANGED <<metaFile, metaCalls, failedKeys>>
  /\ UNCHANGED notMeta

\* A faulty variant: updatePhotoAddress is called whatever the result.
GeocodeDone_AlwaysUpdates(outcome) ==
  /\ geoTask.pc = "geocode"
  /\ geoTask' = [geoTask EXCEPT !.pc = "updLoad"]
  /\ failedKeys' = IF outcome = "address" THEN failedKeys
                   ELSE failedKeys \cup {geoTask.key}
  /\ metaRet' = [NoMetaRet EXCEPT !.key = geoTask.key, !.geo = outcome]
  /\ UNCHANGED <<geocodingQueue, isProcessingGeocodingQueue>>
  /\ UNCHANGED <<metaFile, metaCall, metaCalls>>
  /\ UNCHANGED notMeta

\* The task's reverseGeocode returns: an address (a display_name with
\* visible characters), and updatePhotoAddress awaits the database; or null
\* (HTTP error, timeout, malformed payload), and the loop goes on.
GeocodeDone(outcome) ==
  /\ geoTask.pc = "geocode"
  /\ IF outcome = "address"
     THEN /\ geoTask' = [geoTask EXCEPT !.pc = "updLoad"]
          /\ UNCHANGED <<geocodingQueue, isProcessingGeocodingQueue,
                          failedKeys>>
     ELSE /\ DrainNext(geocodingQueue)
          /\ failedKeys' = failedKeys \cup {geoTask.key}
  /\ metaRet' = [NoMetaRet EXCEPT !.key = geoTask.key, !.geo = outcome]
  /\ UNCHANGED <<metaFile, metaCall, metaCalls>>
  /\ UNCHANGED notMeta

\* updatePhotoAddress lines 899-903: the database is read; a record that is
\* there gets both addresses in the copy and the save is awaited.
UpdateLoaded ==
  /\ geoTask.pc = "updLoad"
  /\ IF metaFile[geoTask.key] # "none"
     THEN /\ geoTask' = [geoTask EXCEPT
                           !.pc = "updSave",
                           !.db = [metaFile EXCEPT ![geoTask.key] = "addr"]]
          /\ UNCHANGED <<geocodingQueue, isProcessingGeocodingQueue>>
     ELSE DrainNext(geocodingQueue)
  /\ metaRet' = NoMetaRet
  /\ UNCHANGED <<metaFile, metaCall, metaCalls, failedKeys>>
  /\ UNCHANGED notMeta

\* updatePhotoAddress lines 903-908: the save has replaced the file or
\* thrown; the task resolves and the loop goes on.
UpdateSaved(ok) ==
  /\ geoTask.pc = "updSave"
  /\ metaFile' = IF ok THEN geoTask.db ELSE metaFile
  /\ DrainNext(geocodingQueue)
  /\ metaRet' = NoMetaRet
  /\ UNCHANGED <<metaCall, metaCalls, failedKeys>>
  /\ UNCHANGED notMeta

InitMeta ==
  /\ metaFile = NoRecords
  /\ metaCall = [c \in MetaSlots |-> IdleMeta]
  /\ geoTask = IdleTask
  /\ metaCalls = 0
  /\ failedKeys = {}
  /\ metaRet = NoMetaRet

NextMeta ==
  \/ \E c \in MetaSlots, key \in Keys, md \in {"none", "date", "loc"} :
       savePhotoMetadata(c, key, md)
  \/ \E c \in MetaSlots : SaveLoaded(c)
  \/ \E c \in MetaSlots, ok \in BOOLEAN : SaveWritten(c, ok)
  \/ \E c \in MetaSlots, key \in Keys : checkAndLogGeocodingUrl(c, key)
  \/ \E c \in MetaSlots : CheckLoaded(c)
  \/ \E outcome \in {"address", "null"} : GeocodeDone(outcome)
  \/ UpdateLoaded
  \/ \E ok \in BOOLEAN : UpdateSaved(ok)

-----------------------------------------------------------------------------
(* Claims about the records                                                *)

C19_AddressIsTerminal ==
  [][\A k \in Keys : metaFile[k] = "addr" => metaFile'[k] = "addr"]_vars

\* C33: updates of the database are never lost, whatever the interleaving
\* of the read-modify-write operations at their awaits: a record that a
\* save has put in the file stays in the file, and with the addresses that
\* an update has given it.
C33_NoLostUpdate ==
  [][\A k \in Keys :
       /\ metaFile[k] # "none" => metaFile'[k] # "none"
       /\ metaFile[k] = "addr" => metaFile'[k] = "addr"]_vars

\* The step of a request that ends in null: nothing is written and the
\* loop takes the next queued task, or ends on an empty queue.
FailedRequestStep ==
  (geoTask.pc = "geocode" /\ metaRet'.geo = "null") =>
    /\ metaFile' = metaFile
    /\ IF geocodingQueue = <<>>
       THEN ~isProcessingGeocodingQueue' /\ geoTask'.pc = "idle"
       ELSE /\ geoTask'.pc = "geocode"
            /\ geoTask'.key = Head(geocodingQueue)
            /\ isProcessingGeocodingQueue'

-----------------------------------------------------------------------------
(* Functions of values: ImageCache.getCacheKey and get, ImageListManager   *)
(* shuffleArray and sortImageList, SynologyPhotosClient.fetchPhotos. Each  *)
(* action is one call: it records the arguments and the result.            *)

notFn == <<showVars, geoVars, dbVars, cacheVars, sweepVars, metaVars, bgVars,
          instVars, tm>>

\* Identifiers are texts cut into pieces: startsWith looks at the first
\* piece, includes at all of them. Two download urls differ in the order of
\* their query string only.
Identifiers ==
  { <<"https://nas/entry.cgi?", "api=", "SYNO.Foto.Download", "&size=xl", "&type=unit">>,
    <<"https://nas/entry.cgi?", "api=", "SYNO.Foto.Download", "&type=unit", "&size=xl">>,
    <<"https://nas/entry.cgi?", "api=", "SYNO.FotoTeam.Download", "&size=xl">>,
    <<"https://nas/entry.cgi?", "api=", "SYNO.Foto.Thumbnail", "&size=xl">>,
    <<"https://nas/entry.cgi?", "api=", "SYNO.FotoTeam.Thumbnail", "&size=xl">>,
    <<"https://example.org/", "photo.jpg">>,
    <<"original_", "42", "_", "0">>,
    <<"thumbnail_", "7", "_", "1">> }

\* Provider ids and space ids as written in a key; "undefined" and "null"
\* stand for the absent argument.
SynologyIds == {"undefined", "0", "42"}
SpaceIds == {"undefined", "null", "0", "1"}

\* spaceId || 0
OrZero(spaceId) ==
  IF spaceId \in {"undefined", "null", "0"} THEN "0" ELSE spaceId

\* A faulty variant: the space id is written as given.
getCacheKey_RawSpace(imageIdentifier, synologyId, spaceId) ==
  IF Head(imageIdentifier) \in {"original_", "thumbnail_"}
  THEN imageIdentifier
  ELSE IF synologyId # "undefined"
       THEN IF \/ "SYNO.Foto.Download" \in Range(imageIdentifier)
               \/ "SYNO.FotoTeam.Download" \in Range(imageIdentifier)
            THEN <<"original_", synologyId, "_", spaceId>>
            ELSE <<"thumbnail_", synologyId, "_", spaceId>>
       ELSE <<"md5:">> \o imageIdentifier

\* getCacheKey; the md5 digest of a text is written "md5:" before the text.
getCacheKey(imageIdentifier, synologyId, spaceId) ==
  IF Head(imageIdentifier) \in {"original_", "thumbnail_"}
  THEN imageIdentifier
  ELSE IF synologyId # "undefined"
       THEN IF \/ "SYNO.Foto.Download" \in Range(imageIdentifier)
               \/ "SYNO.FotoTeam.Download" \in Range(imageIdentifier)
            THEN <<"original_", synologyId, "_", OrZero(spaceId)>>
            ELSE IF \/ "SYNO.Foto.Thumbnail" \in Range(imageIdentifier)
                    \/ "SYNO.FotoTeam.Thumbnail" \in Range(imageIdentifier)
                 THEN <<"thumbnail_", synologyId, "_", OrZero(spaceId)>>
                 ELSE <<"thumbnail_", synologyId, "_", OrZero(spaceId)>>
       ELSE <<"md5:">> \o imageIdentifier

\* Two calls of getCacheKey with the same provider id and space id.
CallGetCacheKey(a, b, synologyId, spaceId) ==
  /\ fn = "none"
  /\ fn' = "getCacheKey"
  /\ arg' = [a |-> a, b |-> b, synologyId |-> synologyId, spaceId |-> spaceId]
  /\ out' = [a |-> getCacheKey(a, synologyId, spaceId),
             b |-> getCacheKey(b, synologyId, spaceId)]
  /\ UNCHANGED notFn

\* The key table of the cache (NodeCache, maxKeys: 1000), scaled down.
maxKeys == 2

\* Keys the table may hold.
TableKeys ==
  { getCacheKey(a, "42", s) : a \in Identifiers, s \in {"0", "1"} }

\* The extensions get tries, in its order, and one it does not try.
extensions == <<".jpg", ".jpeg", ".png", ".heic", ".webp">>
FileExtensions == {".jpeg", ".webp", ".gif"}

\* The first extension of the list with a file on disk, or <<>>.
FirstAccessible(present) ==
  LET hits == {i \in DOMAIN extensions : extensions[i] \in present}
  IN IF hits = {} THEN <<>>
     ELSE <<extensions[CHOOSE i \in hits : \A j \in hits : i <= j]>>

\* A faulty variant: a key the table does not hold is a miss.
get_TableOnly(table, present, imageIdentifier, synologyId, spaceId) ==
  LET key == getCacheKey(imageIdentifier, synologyId, spaceId)
      found == FirstAccessible(present)
  IN IF key \in table /\ found # <<>>
     THEN [path |-> key \o found, table |-> table]
     ELSE [path |-> <<>>, table |-> table \ {key}]

\* get on an initialized cache: table is the key table, present the
\* extensions under which a file of the key is in the cache directory.
\* cache.set on a table that holds maxKeys keys throws (ECACHEFULL), and the
\* catch of get returns null.
get(table, present, imageIdentifier, synologyId, spaceId) ==
  LET key == getCacheKey(imageIdentifier, synologyId, spaceId)
      found == FirstAccessible(present)
  IN IF key \in table
     THEN IF found # <<>>
          THEN [path |-> key \o found, table |-> table]
          ELSE [path |-> <<>>, table |-> table \ {key}]
     ELSE IF found # <<>>
          THEN IF Cardinality(table) >= maxKeys
               THEN [path |-> <<>>, table |-> table]
               ELSE [path |-> key \o found, table |-> table \cup {key}]
          ELSE [path |-> <<>>, table |-> table]

CallGet(table, present, imageIdentifier, synologyId, spaceId) ==
  /\ fn = "none"
  /\ fn' = "get"
  /\ arg' = [table |-> table, present |-> present,
             key |-> getCacheKey(imageIdentifier, synologyId, spaceId)]
  /\ out' = get(table, present, imageIdentifier, synologyId, spaceId)
  /\ UNCHANGED notFn

MaxListLen == 3         \* longest list given to shuffleArray and sortImageList

\* Lists of at most MaxListLen of the given elements.
ListsOf(S) == UNION {[1..n -> S] : n \in 0..MaxListLen}

\* Values of Date.now() (what matters of them is the remainder by 233280).
Clock == {0, 1, 86399, 233279}

\* seededRandom: seed = (seed * 9301 + 49297) % 233280, the product taken
\* in two steps so that it stays within 32 bits.
NextSeed(seed) == (((seed * 93) % 233280) * 100 + seed + 49297) % 233280

\* A faulty variant: one element is written over the other.
Swap_Overwrite(a, i, j) == [a EXCEPT ![i] = a[j]]

\* [shuffled[i], shuffled[j]] = [shuffled[j], shuffled[i]]
Swap(a, i, j) == [a EXCEPT ![i] = a[j], ![j] = a[i]]

\* First pass: positions i (counted from 1) down to 2, with
\* j = floor(seededRandom() * i) + 1.
RECURSIVE SeededPass(_, _, _)
SeededPass(a, i, seed) ==
  IF i <= 1 THEN a
  ELSE LET s == NextSeed(seed)
           j == (s * i) \div 233280 + 1
       IN SeededPass(Swap(a, i, j), i - 1, s)

\* Second pass: Math.random gives any js[i] in 1..i.
RECURSIVE RandomPass(_, _, _)
RandomPass(a, i, js) ==
  IF i <= 1 THEN a
  ELSE RandomPass(Swap(a, i, js[i]), i - 1, js)

shuffleArray(array, seed, js) ==
  RandomPass(SeededPass(array, Len(array), seed), Len(array), js)

CallShuffle(array, seed, js) ==
  /\ fn = "none"
  /\ fn' = "shuffleArray"
  /\ arg' = [array |-> array, seed |-> seed, js |-> js]
  /\ out' = shuffleArray(array, seed, js)
  /\ UNCHANGED notFn

\* Photo items to sort: a path, a creation and a modification time.
SortItems ==
  { [path |-> p, created |-> c, modified |-> 3 - c] :
      p \in {"a", "A", "a2", "b"}, c \in {1, 2} }

\* The place of path.toLowerCase() in the order of strings.
LowerCaseRank(path) ==
  CASE path \in {"a", "A"} -> 1
    [] path = "a2" -> 2
    [] path = "b" -> 3

sortByFilename(a, b) ==
  IF LowerCaseRank(a.path) > LowerCaseRank(b.path) THEN 1 ELSE -1

sortByCreated(a, b) == a.created - b.created

sortByModified(a, b) == a.modified - b.modified

Reverse(s) == [i \in DOMAIN s |-> s[Len(s) + 1 - i]]

\* Array.prototype.sort: the result is in the order of the comparator, and
\* two elements the comparator calls equal (0) keep their order. Elements
\* it puts before each other both ways may come out in either order.
ArraySort(list, sortBy) ==
  LET cmp(a, b) == CASE sortBy = "created" -> sortByCreated(a, b)
                     [] sortBy = "modified" -> sortByModified(a, b)
                     [] sortBy = "newest" -> b.synologyId - a.synologyId
                     [] OTHER -> sortByFilename(a, b)
      n == Len(list)
      Orders == {f \in [1..n -> 1..n] :
                   /\ \A i, j \in 1..n : i # j => f[i] # f[j]
                   /\ \A i, j \in 1..n : i < j =>
                        /\ cmp(list[f[i]], list[f[j]]) <= 0
                        /\ cmp(list[f[i]], list[f[j]]) = 0 => f[i] < f[j]}
  IN {[i \in 1..n |-> list[f[i]]] : f \in Orders}

\* sortImageList with its sortBy and sortDescending: the lists it may return.
sortImageListBy(images, sortBy, sortDescending) ==
  LET sorted == ArraySort(images, IF sortBy \in {"created", "modified"}
                                  THEN sortBy ELSE "name")
  IN IF sortDescending THEN {Reverse(l) : l \in sorted} ELSE sorted

CallSort(images, sortBy, sortDescending, sortedList) ==
  /\ fn = "none"
  /\ sortedList \in sortImageListBy(images, sortBy, sortDescending)
  /\ fn' = "sortImageList"
  /\ arg' = [imageList |-> images, sortBy |-> sortBy,
             sortDescending |-> sortDescending]
  /\ out' = sortedList
  /\ UNCHANGED notFn

MaxResults == 2         \* items in the answer to one request of a fetch

\* What one request answers: items of processPhotoList, each with the
\* provider id (also its creation time), the space of the request and the
\* album, tag or person (from) it was asked for; no photo twice.
ResultsOf(from, spaceId) ==
  LET Answers == UNION {[1..n -> [synologyId : {1, 2}, spaceId : {spaceId},
                                  from : {from}]] : n \in 0..MaxResults}
  IN {l \in Answers : \A i, j \in DOMAIN l : i # j => l[i] # l[j]}

\* photoArrays.flat()
Flat(photoArrays) ==
  IF photoArrays = <<>> THEN <<>> ELSE photoArrays[1] \o photoArrays[2]

\* removeDuplicatePhotos: filter with the set of the synologyId seen.
removeDuplicatePhotos(photos) ==
  LET Seen(i) == \E j \in 1..(i - 1) : photos[j].synologyId = photos[i].synologyId
      kept == {i \in DOMAIN photos : ~Seen(i)}
      Nth(k) == CHOOSE i \in kept : Cardinality({j \in kept : j < i}) = k - 1
  IN [k \in 1..Cardinality(kept) |-> photos[Nth(k)]]

\* fetchPhotosByPersonalSpaceAlbums after its requests: newest first, cut
\* to the batch size, duplicates removed.
fetchPhotosByPersonalSpaceAlbums(photoArrays) ==
  LET newestFirst == CHOOSE l \in ArraySort(Flat(photoArrays), "newest") : TRUE
  IN removeDuplicatePhotos(SubSeq(newestFirst, 1,
                                  Min(Len(newestFirst), synologyMaxPhotos)))

\* fetchPhotos after the requests of the configured path have answered.
fetchPhotos(path, photoArrays) ==
  CASE path = "personal" -> fetchPhotosByPersonalSpaceAlbums(photoArrays)
    [] path = "tags" -> removeDuplicatePhotos(Flat(photoArrays))
    [] path = "shared" -> photoArrays[1]
    [] path = "albums" -> Flat(photoArrays)

CallFetchPhotos(path, photoArrays) ==
  /\ fn = "none"
  /\ fn' = "fetchPhotos"
  /\ arg' = [path |-> path, photoArrays |-> photoArrays]
  /\ out' = fetchPhotos(path, photoArrays)
  /\ UNCHANGED notFn

InitFn ==
  /\ fn = "none"
  /\ arg = <<>>
  /\ out = <<>>

NextFn ==
  \/ \E a, b \in Identifiers, synologyId \in SynologyIds, spaceId \in SpaceIds :
       CallGetCacheKey(a, b, synologyId, spaceId)
  \/ \E table \in {T \in SUBSET TableKeys : Cardinality(T) <= maxKeys},
        present \in SUBSET FileExtensions, a \in Identifiers, spaceId \in SpaceIds :
       CallGet(table, present, a, "42", spaceId)
  \/ \E array \in ListsOf({"p", "q"}), seed \in Clock :
       \E js \in {f \in [2..Len(array) -> 1..MaxListLen] :
                    \A i \in DOMAIN f : f[i] <= i} :
         CallShuffle(array, seed, js)
  \/ \E images \in ListsOf(SortItems), sortDescending \in BOOLEAN,
        sortBy \in {"name", "created", "modified"} :
       \E sortedList \in sortImageListBy(images, sortBy, sortDescending) :
         CallSort(images, sortBy, sortDescending, sortedList)
  \/ \E path \in {"personal", "tags", "albums"}, s1, s2 \in {0, 1} :
       \E first \in ResultsOf(1, s1), second \in ResultsOf(2, s2) :
         CallFetchPhotos(path, <<first, second>>)
  \/ \E only \in ResultsOf(1, 0) : CallFetchPhotos("shared", <<only, <<>> >>)

-----------------------------------------------------------------------------
(* Claims about the functions of values                                    *)

\* The kind of an identifier: a key already, an original, a thumbnail, other.
KindOf(identifier) ==
  IF Head(identifier) \in {"original_", "thumbnail_"} THEN "key"
  ELSE IF \/ "SYNO.Foto.Download" \in Range(identifier)
          \/ "SYNO.FotoTeam.Download" \in Range(identifier) THEN "original"
  ELSE IF \/ "SYNO.Foto.Thumbnail" \in Range(identifier)
          \/ "SYNO.FotoTeam.Thumbnail" \in Range(identifier) THEN "thumbnail"
  ELSE "other"

C21_GetFindsFileOnDisk ==
  fn = "get" =>
    LET known == arg.present \cap Range(extensions)
    IN IF known = {}
       THEN out.path = <<>>
       ELSE \E e \in known : out.path = arg.key \o <<e>>

\* The number of times e occurs in s.
Count(s, e) == Cardinality({i \in DOMAIN s : s[i] = e})

\* C23: for every input list, the empty list and lists with repeated
\* elements included, shuffleArray returns a list of the same length that
\* holds the same multiset of elements.
C23_ShuffleIsPermutation ==
  fn = "shuffleArray" =>
    /\ Len(out) = Len(arg.array)
    /\ \A e \in Range(arg.array) \cup Range(out) :
         Count(out, e) = Count(arg.array, e)

\* A list with a repeated element came back in another order.
C23_Witness ==
  /\ fn = "shuffleArray"
  /\ Len(arg.array) = MaxListLen
  /\ Count(arg.array, "p") = 2
  /\ out # arg.array

\* The key an item is sorted by.
SortKey(item, sortBy) ==
  CASE sortBy = "created" -> item.created
    [] sortBy = "modified" -> item.modified
    [] OTHER -> LowerCaseRank(item.path)

\* The items of list in ascending order of their key, items of equal key
\* in the order they have in list.
StableAscending(list, sortBy) ==
  LET n == Len(list)
      Before(i, j) ==
        \/ SortKey(list[i], sortBy) < SortKey(list[j], sortBy)
        \/ SortKey(list[i], sortBy) = SortKey(list[j], sortBy) /\ i < j
      Place(i) == 1 + Cardinality({j \in 1..n : Before(j, i)})
  IN [k \in 1..n |-> list[CHOOSE i \in 1..n : Place(i) = k]]

\* C24: ascending, sortImageList returns the items in the order of the
\* chosen key (name without regard to case, creation time, modification
\* time), items of equal key in their original order, names that differ
\* only in letter case included; descending, it returns the reverse of
\* that: b, a, a2 give a, a2, b and b, a2, a.
C24_SortIsStable ==
  fn = "sortImageList" =>
    out = IF arg.sortDescending
          THEN Reverse(StableAscending(arg.imageList, arg.sortBy))
          ELSE StableAscending(arg.imageList, arg.sortBy)

\* C28: the list a provider fetch returns, on every path, holds no two
\* items of the same identity (provider id, space id), and of the items of
\* one identity in the raw results it holds the last.
C28_FetchReturnsLastOfEachIdentity ==
  fn = "fetchPhotos" =>
    LET raw == Flat(arg.photoArrays)
        Same(a, b) == a.synologyId = b.synologyId /\ a.spaceId = b.spaceId
    IN /\ \A i, j \in DOMAIN out : i # j => ~Same(out[i], out[j])
       /\ \A i \in DOMAIN out : \E k \in DOMAIN raw :
            /\ raw[k] = out[i]
            /\ \A l \in DOMAIN raw : Same(raw[l], raw[k]) => l <= k

-----------------------------------------------------------------------------
(* BackgroundDownloader: start, stop and the periodic check for new images *)

notBg == <<showVars, geoVars, dbVars, cacheVars, sweepVars, metaVars, fnVars,
          instVars, tm>>

InitialDelayMs == 5000        \* start(): the first check, after a short delay
DefaultIntervalMs == 3600000  \* start(): 60 * 60 * 1000 when none is configured
BgTickMs == 5000              \* granularity of the clock
MaxBgTicks == 5               \* length of the run, in ticks
MaxNewImages == 2             \* images one check finds to download

\* config.backgroundDownloadInterval: unset (0), negative, or a time in ms.
Intervals == {-5000, 0, 5000, 10000}

NoTimer == -1

NotStarted ==
  [started |-> FALSE, enabled |-> FALSE, cache |-> FALSE, stopped |-> FALSE,
   interval |-> 0, startedAt |-> 0, triggers |-> 0, dropped |-> 0,
   downloadedImageIds |-> 0]

BgCur ==
  [initial |-> initialTimer, refresh |-> refreshTimer,
   flag |-> isDownloading, sw |-> sweeps, log |-> bg]

BgInstall(B) ==
  /\ initialTimer' = B.initial
  /\ refreshTimer' = B.refresh
  /\ isDownloading' = B.flag
  /\ sweeps' = B.sw
  /\ bg' = B.log

\* TimerManager.stopRefreshTimer: clearTimeout.
stopRefreshTimer(B) == [B EXCEPT !.refresh = NoTimer]

\* TimerManager.startRefreshTimer: one setTimeout.
startRefreshTimer(B, interval) ==
  IF interval <= 0
  THEN stopRefreshTimer(B)
  ELSE [stopRefreshTimer(B) EXCEPT !.refresh = bgClock + interval]

\* checkAndDownloadNewImages up to its first await: the re-entrancy flag,
\* the cache switch, then the fetch of the image list leaves (-1).
checkAndDownloadNewImages(B) ==
  IF B.flag
  THEN [B EXCEPT !.log.dropped = @ + 1]
  ELSE IF ~B.log.cache
       THEN B
       ELSE [B EXCEPT !.flag = TRUE, !.sw = Append(@, -1)]

\* BackgroundDownloader.start.
start(enabled, cache, interval) ==
  /\ ~bg.started
  /\ LET configured == IF interval = 0 THEN DefaultIntervalMs ELSE interval
         B0 == [BgCur EXCEPT !.log = [NotStarted EXCEPT
                                        !.started = TRUE,
                                        !.enabled = enabled,
                                        !.cache = cache,
                                        !.interval = configured,
                                        !.startedAt = bgClock]]
     IN BgInstall(IF ~enabled
                  THEN B0
                  ELSE startRefreshTimer(
                         [B0 EXCEPT !.initial = bgClock + InitialDelayMs],
                         configured))
  /\ UNCHANGED bgClock
  /\ UNCHANGED notBg

\* BackgroundDownloader.stop.
stop ==
  /\ bg.started
  /\ ~bg.stopped
  /\ BgInstall([stopRefreshTimer(BgCur) EXCEPT !.log.stopped = TRUE])
  /\ UNCHANGED bgClock
  /\ UNCHANGED notBg

\* The setTimeout of start() fires, once.
InitialFire ==
  /\ initialTimer # NoTimer
  /\ bgClock >= initialTimer
  /\ BgInstall(checkAndDownloadNewImages([BgCur EXCEPT !.initial = NoTimer]))
  /\ UNCHANGED bgClock
  /\ UNCHANGED notBg

\* The setTimeout of startRefreshTimer fires and runs the callback.
RefreshFire ==
  /\ refreshTimer # NoTimer
  /\ bgClock >= refreshTimer
  /\ BgInstall(checkAndDownloadNewImages(
       [BgCur EXCEPT !.refresh = NoTimer, !.log.triggers = @ + 1]))
  /\ UNCHANGED bgClock
  /\ UNCHANGED notBg

\* The end of a check, by a return, or by an error, through finally.
EndSweep(B, i) ==
  [B EXCEPT !.flag = FALSE,
            !.sw = SubSeq(@, 1, i - 1) \o SubSeq(@, i + 1, Len(@))]

\* fetchPhotos has answered: nothing to download, an error, or a list of
\* images whose originals are not cached yet.
FetchDone(i, toDownload) ==
  /\ i \in 1..Len(sweeps)
  /\ sweeps[i] = -1
  /\ BgInstall(IF toDownload = 0
               THEN EndSweep(BgCur, i)
               ELSE [BgCur EXCEPT !.sw[i] = toDownload])
  /\ UNCHANGED bgClock
  /\ UNCHANGED notBg

\* downloadImages: one image downloaded and cached (or not available),
\* then the delay; after the last one the check ends.
DownloadOne(i, available) ==
  /\ i \in 1..Len(sweeps)
  /\ sweeps[i] > 0
  /\ LET B == IF available
              THEN [BgCur EXCEPT !.log.downloadedImageIds = @ + 1]
              ELSE BgCur
     IN BgInstall(IF sweeps[i] = 1
                  THEN EndSweep(B, i)
                  ELSE [B EXCEPT !.sw[i] = @ - 1])
  /\ UNCHANGED bgClock
  /\ UNCHANGED notBg

\* Time passes; a timer that is due fires before the clock moves on.
BgTick ==
  /\ bgClock < MaxBgTicks * BgTickMs
  /\ initialTimer # NoTimer => bgClock < initialTimer
  /\ refreshTimer # NoTimer => bgClock < refreshTimer
  /\ bgClock' = bgClock + BgTickMs
  /\ UNCHANGED <<initialTimer, refreshTimer, isDownloading, sweeps, bg>>
  /\ UNCHANGED notBg

InitBg ==
  /\ bgClock = 0
  /\ initialTimer = NoTimer
  /\ refreshTimer = NoTimer
  /\ isDownloading = FALSE
  /\ sweeps = <<>>
  /\ bg = NotStarted

NextBg ==
  \/ \E enabled \in BOOLEAN, cache \in BOOLEAN, interval \in Intervals :
       start(enabled, cache, interval)
  \/ stop
  \/ InitialFire
  \/ RefreshFire
  \/ \E i \in 1..2, toDownload \in 0..MaxNewImages : FetchDone(i, toDownload)
  \/ \E i \in 1..2, available \in BOOLEAN : DownloadOne(i, available)
  \/ BgTick

\* C29: once started with the background download enabled, and until it
\* is stopped, the downloader has triggered one check for every configured
\* interval that has gone by; and no two checks ever run at the same time.
C29_SweepEveryInterval ==
  /\ (bg.started /\ bg.enabled /\ ~bg.stopped /\ bg.interval > 0) =>
       bg.triggers >= (bgClock - bg.startedAt - BgTickMs) \div bg.interval
  /\ Len(sweeps) <= 1

-----------------------------------------------------------------------------
(* ExifExtractor: the instances of one process. ImageProcessor and         *)
(* BackgroundDownloader each construct their own; every instance has its   *)
(* own queue, flag and lastGeocodingRequestTime, and all read one clock.   *)

notInst == <<showVars, dbVars, cacheVars, sweepVars, metaVars, fnVars, bgVars,
            tm,
            lastGeocodingRequestTime, geocodingQueue,
            isProcessingGeocodingQueue, drain, enqueued, reqTimes, execOrder>>

MaxGeocoded == 3              \* geocoding tasks enqueued in one run
MaxInstTicks == 4             \* length of the run, in ticks

Instances == {"imageProcessor", "backgroundDownloader"}

\* The fields of a new instance (lines 57-63).
NewExtractor ==
  [last |-> 0, queue |-> <<>>, flag |-> FALSE,
   dr |-> [d \in DrainSlots |-> IdleDrain], times |-> <<>>, order |-> <<>>]

\* The instance goes from G to H: a request that left is a request of the
\* process.
InstInstall(who, G, H) ==
  /\ extractors' = [extractors EXCEPT ![who] = H]
  /\ requests' = IF Len(H.times) > Len(G.times)
                 THEN Append(requests, now) ELSE requests

\* enqueueGeocoding on one instance, called for a photo with a location.
InstEnqueue(who) ==
  /\ geocoded < MaxGeocoded
  /\ geocoded' = geocoded + 1
  /\ LET G == extractors[who]
         d == IF G.dr[1].pc = "idle" THEN 1 ELSE 2
     IN InstInstall(who, G,
          processGeocodingQueue(
            [G EXCEPT !.queue = Append(@, geocoded + 1)], d))
  /\ UNCHANGED now
  /\ UNCHANGED notInst

\* The rate-limit setTimeout of one instance fires.
InstRateWaitDone(who, d) ==
  /\ extractors[who].dr[d].pc = "rateWait"
  /\ now >= extractors[who].dr[d].wakeAt
  /\ InstInstall(who, extractors[who], SendRequest(extractors[who], d))
  /\ UNCHANGED <<now, geocoded>>
  /\ UNCHANGED notInst

\* The request of one instance ends.
InstHttpDone(who, d, outcome) ==
  /\ extractors[who].dr[d].pc = "http"
  /\ outcome = "timeout" =>
       now - extractors[who].dr[d].start >= HttpTimeoutMs
  /\ LET G == extractors[who]
         G1 == IF UpdatesLastRequestTime(outcome)
               THEN [G EXCEPT !.last = now] ELSE G
     IN InstInstall(who, G, IF outcome = "address"
                            THEN [G1 EXCEPT !.dr[d].pc = "update"]
                            ELSE DrainLoop(G1, d))
  /\ UNCHANGED <<now, geocoded>>
  /\ UNCHANGED notInst

\* updatePhotoAddress of one instance returned.
InstUpdateAddressDone(who, d) ==
  /\ extractors[who].dr[d].pc = "update"
  /\ InstInstall(who, extractors[who], DrainLoop(extractors[who], d))
  /\ UNCHANGED <<now, geocoded>>
  /\ UNCHANGED notInst

\* Time passes. A request cannot stay open beyond the axios timeout.
InstTick ==
  /\ now < StartTime + MaxInstTicks * TickMs
  /\ \A who \in Instances, d \in DrainSlots :
       extractors[who].dr[d].pc = "http" =>
         now - extractors[who].dr[d].start < HttpTimeoutMs
  /\ now' = now + TickMs
  /\ UNCHANGED <<extractors, requests, geocoded>>
  /\ UNCHANGED notInst

InitInst ==
  /\ extractors = [who \in Instances |-> NewExtractor]
  /\ requests = <<>>
  /\ geocoded = 0

NextInst ==
  \/ \E who \in Instances : InstEnqueue(who)
  \/ \E who \in Instances, d \in DrainSlots : InstRateWaitDone(who, d)
  \/ \E who \in Instances, d \in DrainSlots, outcome \in Outcomes :
       InstHttpDone(who, d, outcome)
  \/ \E who \in Instances, d \in DrainSlots : InstUpdateAddressDone(who, d)
  \/ InstTick

-----------------------------------------------------------------------------
(* TimerManager: the handles it keeps and the timeouts that are pending.   *)
(* Its callers (the end of a serve call, play, pause) reach it in any      *)
(* order; a timeout is known by the number setTimeout returned.            *)

notTm == <<showVars, geoVars, dbVars, cacheVars, sweepVars, metaVars, fnVars,
          bgVars, instVars>>

MaxTimeouts == 6              \* setTimeout calls in one run

\* slideshowTimer, refreshTimer: the handle kept (0 for null); pending: the
\* timeouts not yet fired or cleared, each with the timer it belongs to.
NewTimerManager ==
  [slideshowTimer |-> 0, refreshTimer |-> 0, created |-> 0,
   pending |-> [i \in 1..MaxTimeouts |-> "none"]]

clearTimeout(T, handle) ==
  IF handle \in 1..MaxTimeouts
  THEN [T EXCEPT !.pending[handle] = "none"] ELSE T

setTimeout(T, kind) ==
  [T EXCEPT !.created = @ + 1, !.pending[T.created + 1] = kind]

stopSlideshowTimer(T) ==
  IF T.slideshowTimer # 0
  THEN [clearTimeout(T, T.slideshowTimer) EXCEPT !.slideshowTimer = 0]
  ELSE T

\* A faulty variant: the pending timeout is not cleared first.
TimerManager_startSlideshowTimer_NoStop(T) ==
  [setTimeout(T, "slideshow") EXCEPT !.slideshowTimer = T.created + 1]

\* TimerManager.startSlideshowTimer.
TimerManager_startSlideshowTimer(T) ==
  LET T1 == stopSlideshowTimer(T)
  IN [setTimeout(T1, "slideshow") EXCEPT !.slideshowTimer = T1.created + 1]

\* TimerManager.stopRefreshTimer and startRefreshTimer.
TimerManager_stopRefreshTimer(T) ==
  IF T.refreshTimer # 0
  THEN [clearTimeout(T, T.refreshTimer) EXCEPT !.refreshTimer = 0]
  ELSE T

TimerManager_startRefreshTimer(T, interval) ==
  LET T1 == TimerManager_stopRefreshTimer(T)
  IN IF interval <= 0
     THEN T1
     ELSE [setTimeout(T1, "refresh") EXCEPT !.refreshTimer = T1.created + 1]

TimerManager_stopAllTimers(T) ==
  TimerManager_stopRefreshTimer(stopSlideshowTimer(T))

\* The end of a serve call, or play: the display timer is started.
TmStartSlideshow ==
  /\ tm.created < MaxTimeouts
  /\ tm' = TimerManager_startSlideshowTimer(tm)
  /\ UNCHANGED notTm

TmStartRefresh(interval) ==
  /\ tm.created < MaxTimeouts
  /\ tm' = TimerManager_startRefreshTimer(tm, interval)
  /\ UNCHANGED notTm

\* pause.
TmStopAll ==
  /\ tm' = TimerManager_stopAllTimers(tm)
  /\ UNCHANGED notTm

\* A pending timeout fires: its callback runs; the handle is kept.
TmFire(handle) ==
  /\ tm.pending[handle] # "none"
  /\ tm' = [tm EXCEPT !.pending[handle] = "none"]
  /\ UNCHANGED notTm

InitTm == tm = NewTimerManager

NextTm ==
  \/ TmStartSlideshow
  \/ \E interval \in {0, 1000} : TmStartRefresh(interval)
  \/ TmStopAll
  \/ \E handle \in 1..MaxTimeouts : TmFire(handle)

\* C35: at most one display timer is pending at any time, in whatever
\* order the display timer is started, stopped and fires.
C35_OneDisplayTimer ==
  Cardinality({i \in 1..MaxTimeouts : tm.pending[i] = "slideshow"}) <= 1

\* The display timer was started while its earlier timeout was pending,
\* and by now once more: the handle is that of the only pending timeout.
C35_Witness ==
  /\ tm.created >= 3
  /\ tm.slideshowTimer = tm.created
  /\ tm.pending[tm.created] = "slideshow"
  /\ tm.pending[1] = "none"
  /\ tm.pending[2] = "none"

-----------------------------------------------------------------------------
Init == InitShow /\ InitGeo /\ InitDb /\ InitCache /\ InitSweep /\ InitMeta
        /\ InitBg /\ InitInst /\ InitTm
        /\ InitFn

SpecShow == Init /\ [][NextShow]_vars
SpecRetry == Init /\ [][NextRetry]_vars
SpecControl == Init /\ [][NextControl]_vars

SpecList == Init /\ [][NextList]_vars

\* Timers fire and fetches return: every step that stays enabled is taken.
SpecServe ==
  /\ Init
  /\ [][NextServe]_vars
  /\ WF_vars(Initialize)
  /\ WF_vars(\E s \in Slots : InitGatherDone(s, 0))
  /\ WF_vars(\E s \in Slots : TimerFire(s))
  /\ WF_vars(\E s \in Slots : FallbackNewDone(s, 0))
  /\ WF_vars(\E s \in Slots : FallbackGatherDone(s, 0))
  /\ WF_vars(PreloadNewDone(0))
  /\ WF_vars(PreloadNextDone(0))

SpecGeo == Init /\ [][NextGeo]_vars

\* Timers fire, requests end (axios has its timeout), file operations
\* return: each step of a running task is taken in the end.
SpecGeoLive ==
  /\ SpecGeo
  /\ WF_vars(\E d \in DrainSlots : RateWaitDone(d))
  /\ WF_vars(\E d \in DrainSlots : HttpDone(d))
  /\ WF_vars(\E d \in DrainSlots : UpdateAddressDone(d))
  /\ WF_vars(Tick)

SpecDb == Init /\ [][NextDb]_vars

SpecCache == Init /\ [][NextCache]_vars

SpecSweep == Init /\ [][NextSweep]_vars

SpecMeta == Init /\ [][NextMeta]_vars

SpecFn == Init /\ [][NextFn]_vars

SpecBg == Init /\ [][NextBg]_vars

SpecInst == Init /\ [][NextInst]_vars

SpecTm == Init /\ [][NextTm]_vars

====
